---- MODULE Spec2Model ----
(***************************************************************************)
(* Model of leafgraph-server's two core subsystems:                        *)
(*   - the storage layer: DatabaseFactory (provider registry) and          *)
(*     MongoDBProvider (connection lifecycle on top of the process-wide    *)
(*     mongoose connection);                                               *)
(*   - the token layer: TokenService (issue / verify) and the              *)
(*     authenticateJwt guard of the protected routes.                      *)
(*   - the refresh endpoint: UserController.refreshToken over the token    *)
(*     layer and the users collection.                                     *)
(*   - the session cookies: the options and headers TokenService writes,   *)
(*     and the login and logout handlers of UserController;                *)
(*   - DatabaseService: the wrapper the application calls the provider     *)
(*     through.                                                            *)
(* Node.js runs one synchronous section at a time: a function body runs    *)
(* to completion up to its next await.  `running` holds the caller that is *)
(* inside a synchronous section; asynchronous operations are split at      *)
(* their await points.                                                     *)
(***************************************************************************)
EXTENDS Integers, Sequences, FiniteSets, TLC

\* ---------------------------------------------------------------- bounds
NumCallers == 2
MaxOps == 4
MaxTicks == 3
MaxIssues == 1

\* ------------------------------------------------------- program constants
Callers == 1..NumCallers

\* 'mongodb' | 'postgres' | 'mysql', plus one string outside DatabaseType
Types == {"mongodb", "postgres", "mysql", "redis"}

\* two DatabaseConfig values that differ
Configs == {"cfgA", "cfgB"}
NoCfg == "none"

\* mongoose.connection.readyState
Disconnected == 0
Connected == 1
Connecting == 2
Disconnecting == 3

VARIABLES
  providers,         \* DatabaseFactory.providers: backend type -> instance
  config,            \* config[i]: this.config of provider instance i
  connection,        \* connection[i]: TRUE iff this.connection !== null
  connectionEvents,  \* connectionEvents[i]: event kinds, oldest first
  listeners,         \* listeners[i]: listener sets instance i put on mongoose.connection
  readyState,        \* mongoose.connection.readyState (one per process)
  running,           \* caller inside a synchronous section, 0 if none
  pc,                \* pc[c]: position of caller c
  frame,             \* frame[c]: arguments and locals of the call in progress
  att,               \* att[c]: closeAll's closePromises, instance -> state
  ret,               \* what the last finished call reported, and to whom
  held,              \* held[c]: the provider createProvider last returned to c
  ops,               \* number of calls and backend signals so far
  epoch,             \* number of times the registry was cleared
  born,              \* born[i]: <<type, epoch>> at construction of instance i
  life,              \* life[i]: last lifecycle call that completed on i
  now,               \* clock, seconds since the epoch of the model
  ticks,             \* number of clock advances so far
  issued,            \* number of generateAuthTokens calls so far
  lastPair,          \* result of the last generateAuthTokens call
  lastVerify,        \* the verifyToken call made at this instant, and its result
  lastGuard,         \* the authenticateJwt run made at this instant, and its result
  views,             \* views[c]: the array getConnectionEvents last returned to c
  sent,              \* number of commands handed to the backend (db.command)
  store,             \* the users collection: the IUser documents it holds
  rq,                \* the refresh request being served, or the last one served
  isProduction,      \* config.isProduction (NODE_ENV === 'production')
  lg,                \* the login or logout request being served, or the last one
  res,               \* res[route]: the response to the latest request on the route
  svc,               \* svc[c]: the DatabaseService call of caller c, or its last one
  us,                \* us[c]: the UserService operation of caller c, or its last one
  sd                 \* the server process: start-up, shutdown and exit

dbVars == <<providers, config, connection, connectionEvents, listeners,
            readyState, running, pc, frame, att, ret, held, ops, epoch, born, life>>
tokVars == <<now, ticks, issued, lastPair, lastVerify, lastGuard>>
provVars == <<views, sent>>
refVars == <<store, rq>>
sessVars == <<isProduction, lg, res>>
svcVars == <<svc, us, sd>>
dbVarsButOps == <<providers, config, connection, connectionEvents, listeners,
                  readyState, running, pc, frame, att, ret, held, epoch, born, life>>
vars == <<providers, config, connection, connectionEvents, listeners,
          readyState, running, pc, frame, att, ret, held, ops, epoch, born, life,
          now, ticks, issued, lastPair, lastVerify, lastGuard,
          views, sent, store, rq, isProduction, lg, res, svc, us, sd>>

\* ======================================================= storage layer

Instances == 1..Len(config)

NoFrame == [type |-> "", cfg |-> NoCfg, self |-> 0, existingProvider |-> 0,
            registered |-> {}, prior |-> ""]

NoRet == [op |-> "none", caller |-> 0, self |-> 0, type |-> "", cfg |-> NoCfg,
          outcome |-> "", value |-> 0, epoch |-> 0, registered |-> {},
          invoked |-> {}, inflight |-> {}, emptied |-> FALSE, prior |-> ""]

\* the report of caller c's call
Report(c, r) == [r EXCEPT !.caller = c]

NoHeld == [value |-> 0, epoch |-> 0]

Range(f) == {f[x] : x \in DOMAIN f}

EmptyMap == [x \in {} |-> 0]

\* MongoDBProvider.isConnected
IsConnectedReadyOnly(i) == readyState = Connected

IsConnectedHandleOnly(i) == connection[i]

IsConnected(i) == connection[i] /\ readyState = Connected

\* `this.connection` is set: the test of disconnect() and of getConnection()
HasHandleAlways(i) == TRUE

HasHandle(i) == connection[i]

\* the early return of connect(): `if (this.isConnected())`
AlreadyConnectedNever(i) == FALSE

AlreadyConnected(i) == IsConnected(i)

\* mongoose emits a lifecycle signal: every installed listener pushes one event
EmitTruncating(log, kind) ==
  [i \in DOMAIN log |-> [k \in 1..listeners[i] |-> kind]]

Emit(log, kind) ==
  [i \in DOMAIN log |->
     log[i] \o [k \in 1..listeners[i] |-> kind]]

\* createProvider contains no await: once entered, its body keeps the thread
\* until it returns or throws
SyncSectionYields(c) == 0

SyncSection(c) == c

\* Map.get in createProvider: the cached instance, 0 for undefined
ExistingProviderNone(t) == 0

ExistingProvider(t) == IF t \in DOMAIN providers THEN providers[t] ELSE 0

\* the switch of createProvider
DispatchNoFuture(t) == IF t = "mongodb" THEN "construct" ELSE "unsupported"

Dispatch(t) ==
  CASE t = "mongodb" -> "construct"
    [] t \in {"postgres", "mysql"} -> "notImplemented"
    [] OTHER -> "unsupported"

\* createProvider, up to the cache lookup (synchronous: holds the thread)
CreateProviderLookup(c, t, cfg) ==
  /\ running = 0 /\ pc[c] = "idle" /\ ops < MaxOps
  /\ ops' = ops + 1
  /\ running' = SyncSection(c)
  /\ pc' = [pc EXCEPT ![c] = "createProvider"]
  /\ frame' = [frame EXCEPT ![c] =
       [NoFrame EXCEPT !.type = t, !.cfg = cfg,
                       !.existingProvider = ExistingProvider(t)]]
  /\ UNCHANGED <<providers, config, connection, connectionEvents, listeners,
                 readyState, att, ret, epoch, born, life>>
  /\ UNCHANGED held
  /\ UNCHANGED tokVars
  /\ UNCHANGED provVars
  /\ UNCHANGED refVars
  /\ UNCHANGED sessVars
  /\ UNCHANGED svcVars

\* createProvider, from the cache test to the return or throw
CreateProviderFinish(c) ==
  /\ running = SyncSection(c) /\ pc[c] = "createProvider"
  /\ running' = 0
  /\ pc' = [pc EXCEPT ![c] = "idle"]
  /\ frame' = [frame EXCEPT ![c] = NoFrame]
  /\ LET f == frame[c]
         r == [NoRet EXCEPT !.op = "createProvider", !.epoch = epoch,
                            !.type = f.type, !.cfg = f.cfg]
     IN IF f.existingProvider # 0
        THEN /\ ret' = Report(c,
                  [r EXCEPT !.outcome = "reused", !.value = f.existingProvider])
             /\ held' = [held EXCEPT ![c] =
                  [value |-> f.existingProvider, epoch |-> epoch]]
             /\ UNCHANGED <<providers, config, connection, connectionEvents,
                            listeners, born, life>>
        ELSE IF Dispatch(f.type) = "construct"
        THEN LET i == Len(config) + 1
             IN /\ config' = Append(config, f.cfg)
                /\ connection' = Append(connection, FALSE)
                /\ connectionEvents' = Append(connectionEvents, <<>>)
                /\ listeners' = Append(listeners, 0)
                /\ born' = Append(born, <<f.type, epoch>>)
                /\ life' = Append(life, "new")
                /\ providers' = [t \in DOMAIN providers \cup {f.type} |->
                                   IF t = f.type THEN i ELSE providers[t]]
                /\ ret' = Report(c,
                     [r EXCEPT !.outcome = "created", !.value = i])
                /\ held' = [held EXCEPT ![c] = [value |-> i, epoch |-> epoch]]
        ELSE /\ ret' = Report(c,
                  [r EXCEPT !.outcome = Dispatch(f.type), !.cfg = NoCfg])
             /\ UNCHANGED held
             /\ UNCHANGED <<providers, config, connection, connectionEvents,
                            listeners, born, life>>
  /\ UNCHANGED <<readyState, att, ops, epoch>>
  /\ UNCHANGED tokVars
  /\ UNCHANGED provVars
  /\ UNCHANGED refVars
  /\ UNCHANGED sessVars
  /\ UNCHANGED svcVars

\* ------------------------------------------------ MongoDBProvider.connect

\* connect(), up to `await mongoose.connect(...)`
Connect(c, i) ==
  /\ running = 0 /\ pc[c] = "idle" /\ ops < MaxOps
  /\ i \in Instances
  /\ ops' = ops + 1
  /\ IF AlreadyConnected(i)
     THEN /\ ret' = Report(c,
               [NoRet EXCEPT !.op = "connect",  !.self = i,
                             !.outcome = "already"])
          /\ UNCHANGED <<readyState, pc, frame>>
     ELSE /\ readyState' = IF readyState \in {Connected, Connecting}
                           THEN readyState ELSE Connecting
          /\ pc' = [pc EXCEPT ![c] = "connect"]
          /\ frame' = [frame EXCEPT ![c] =
               [NoFrame EXCEPT !.self = i]]
          /\ UNCHANGED ret
  /\ UNCHANGED <<providers, config, connection, connectionEvents, listeners,
                 running, att, epoch, born, life>>
  /\ UNCHANGED held
  /\ UNCHANGED tokVars
  /\ UNCHANGED provVars
  /\ UNCHANGED refVars
  /\ UNCHANGED sessVars

\* mongoose.connect fulfils; connect() stores the handle and installs listeners
ConnectResolve(c) ==
  /\ running = 0 /\ pc[c] = "connect"
  /\ LET i == frame[c].self
     IN /\ connectionEvents' = IF readyState # Connected
                               THEN Emit(connectionEvents, "connected")
                               ELSE connectionEvents
        /\ readyState' = Connected
        /\ connection' = [connection EXCEPT ![i] = TRUE]
        /\ listeners' = [listeners EXCEPT ![i] = @ + 1]
        /\ life' = [life EXCEPT ![i] = "connected"]
        /\ ret' = Report(c,
             [NoRet EXCEPT !.op = "connect", !.self = i,
                           !.outcome = "ok"])
  /\ pc' = [pc EXCEPT ![c] = "idle"]
  /\ frame' = [frame EXCEPT ![c] = NoFrame]
  /\ UNCHANGED <<providers, config, running, att, ops, epoch, born>>
  /\ UNCHANGED held
  /\ UNCHANGED tokVars
  /\ UNCHANGED provVars
  /\ UNCHANGED refVars
  /\ UNCHANGED sessVars

\* the catch block of connect() pushes an `error` event before it rethrows
CatchLogNothing(log) == log

CatchLog(log) == Append(log, "error")

\* mongoose.connect rejects; the catch block logs an error event and rethrows
ConnectReject(c) ==
  /\ running = 0 /\ pc[c] = "connect"
  /\ LET i == frame[c].self
     IN /\ readyState' = IF readyState = Connecting THEN Disconnected ELSE readyState
        /\ connectionEvents' = [connectionEvents EXCEPT ![i] = CatchLog(@)]
        /\ ret' = Report(c,
             [NoRet EXCEPT !.op = "connect", !.self = i,
                           !.outcome = "failed"])
  /\ pc' = [pc EXCEPT ![c] = "idle"]
  /\ frame' = [frame EXCEPT ![c] = NoFrame]
  /\ UNCHANGED <<providers, config, connection, listeners, running, att, ops,
                 epoch, born, life>>
  /\ UNCHANGED held
  /\ UNCHANGED tokVars
  /\ UNCHANGED provVars
  /\ UNCHANGED refVars
  /\ UNCHANGED sessVars

\* --------------------------------------------- MongoDBProvider.disconnect

\* what `mongoose.disconnect()` does to the shared connection when called
CallMongooseDisconnect(rs) ==
  IF rs \in {Connected, Connecting} THEN Disconnecting ELSE rs

\* states a rejected mongoose.disconnect() can leave the shared connection in
AfterFailedDisconnect(rs) == {Disconnected, Connected, rs}

\* how the call reported just before this one ended, if it was a
\* disconnect() of provider i; "" otherwise
PriorDisconnect(i) ==
  IF ret.op = "disconnect" /\ ret.self = i THEN ret.outcome ELSE ""

\* disconnect(), up to `await mongoose.disconnect()`
Disconnect(c, i) ==
  /\ running = 0 /\ pc[c] = "idle" /\ ops < MaxOps
  /\ i \in Instances
  /\ ops' = ops + 1
  /\ IF ~HasHandle(i)
     THEN /\ ret' = Report(c,
               [NoRet EXCEPT !.op = "disconnect",  !.self = i,
                             !.outcome = "noop",
                             !.prior = PriorDisconnect(i)])
          /\ life' = [life EXCEPT ![i] = "disconnected"]
          /\ UNCHANGED <<readyState, pc, frame>>
     ELSE /\ readyState' = CallMongooseDisconnect(readyState)
          /\ pc' = [pc EXCEPT ![c] = "disconnect"]
          /\ frame' = [frame EXCEPT ![c] =
               [NoFrame EXCEPT !.self = i, !.prior = PriorDisconnect(i)]]
          /\ UNCHANGED <<ret, life>>
  /\ UNCHANGED <<providers, config, connection, connectionEvents, listeners,
                 running, att, epoch, born>>
  /\ UNCHANGED held
  /\ UNCHANGED tokVars
  /\ UNCHANGED provVars
  /\ UNCHANGED refVars
  /\ UNCHANGED sessVars

\* mongoose.disconnect fulfils; disconnect() drops the handle
DisconnectResolve(c) ==
  /\ running = 0 /\ pc[c] = "disconnect"
  /\ LET i == frame[c].self
     IN /\ connectionEvents' = IF readyState # Disconnected
                               THEN Emit(connectionEvents, "disconnected")
                               ELSE connectionEvents
        /\ readyState' = Disconnected
        /\ connection' = [connection EXCEPT ![i] = FALSE]
        /\ life' = [life EXCEPT ![i] = "disconnected"]
        /\ ret' = Report(c,
             [NoRet EXCEPT !.op = "disconnect", !.self = i,
                           !.outcome = "ok", !.prior = frame[c].prior])
  /\ pc' = [pc EXCEPT ![c] = "idle"]
  /\ frame' = [frame EXCEPT ![c] = NoFrame]
  /\ UNCHANGED <<providers, config, listeners, running, att, ops, epoch, born>>
  /\ UNCHANGED held
  /\ UNCHANGED tokVars
  /\ UNCHANGED provVars
  /\ UNCHANGED refVars
  /\ UNCHANGED sessVars

\* mongoose.disconnect rejects; disconnect() rethrows and keeps the handle
DisconnectReject(c) ==
  /\ running = 0 /\ pc[c] = "disconnect"
  /\ \E rs \in AfterFailedDisconnect(readyState) : readyState' = rs
  /\ ret' = Report(c,
       [NoRet EXCEPT !.op = "disconnect",
                     !.self = frame[c].self, !.outcome = "failed",
                     !.prior = frame[c].prior])
  /\ pc' = [pc EXCEPT ![c] = "idle"]
  /\ frame' = [frame EXCEPT ![c] = NoFrame]
  /\ UNCHANGED <<providers, config, connection, connectionEvents, listeners,
                 running, att, ops, epoch, born, life>>
  /\ UNCHANGED held
  /\ UNCHANGED tokVars
  /\ UNCHANGED provVars
  /\ UNCHANGED refVars
  /\ UNCHANGED sessVars

\* ------------------------------------------------ DatabaseFactory.closeAll

\* closeAll(), up to `await Promise.all(closePromises)`: the loop calls
\* disconnect() on every cached provider
CloseAll(c) ==
  /\ running = 0 /\ pc[c] = "idle" /\ ops < MaxOps
  /\ DOMAIN att[c] = {}
  /\ ops' = ops + 1
  /\ LET targets == Range(providers)
     IN /\ att' = [att EXCEPT ![c] =
             [i \in targets |-> IF connection[i] THEN "await" ELSE "ok"]]
        /\ readyState' = IF \E i \in targets : connection[i]
                         THEN CallMongooseDisconnect(readyState)
                         ELSE readyState
        /\ life' = [i \in DOMAIN life |->
                      IF i \in targets /\ ~connection[i]
                      THEN "disconnected" ELSE life[i]]
        /\ frame' = [frame EXCEPT ![c] =
             [NoFrame EXCEPT  !.registered = targets]]
  /\ pc' = [pc EXCEPT ![c] = "closeAll"]
  /\ UNCHANGED <<providers, config, connection, connectionEvents, listeners,
                 running, ret, epoch, born>>
  /\ UNCHANGED held
  /\ UNCHANGED tokVars
  /\ UNCHANGED provVars
  /\ UNCHANGED refVars
  /\ UNCHANGED sessVars
  /\ UNCHANGED svcVars

\* one of closeAll's disconnect() calls fulfils
CloseAllDisconnectResolve(c, i) ==
  /\ running = 0
  /\ i \in DOMAIN att[c] /\ att[c][i] = "await"
  /\ connectionEvents' = IF readyState # Disconnected
                         THEN Emit(connectionEvents, "disconnected")
                         ELSE connectionEvents
  /\ readyState' = Disconnected
  /\ connection' = [connection EXCEPT ![i] = FALSE]
  /\ life' = [life EXCEPT ![i] = "disconnected"]
  /\ att' = [att EXCEPT ![c][i] = "ok"]
  /\ UNCHANGED <<providers, config, listeners, running, pc, frame, ret, ops,
                 epoch, born>>
  /\ UNCHANGED held
  /\ UNCHANGED tokVars
  /\ UNCHANGED provVars
  /\ UNCHANGED refVars
  /\ UNCHANGED sessVars
  /\ UNCHANGED svcVars

\* one of closeAll's disconnect() calls rejects
CloseAllDisconnectReject(c, i) ==
  /\ running = 0
  /\ i \in DOMAIN att[c] /\ att[c][i] = "await"
  /\ \E rs \in AfterFailedDisconnect(readyState) : readyState' = rs
  /\ att' = [att EXCEPT ![c][i] = "failed"]
  /\ UNCHANGED <<providers, config, connection, connectionEvents, listeners,
                 running, pc, frame, ret, ops, epoch, born, life>>
  /\ UNCHANGED held
  /\ UNCHANGED tokVars
  /\ UNCHANGED provVars
  /\ UNCHANGED refVars
  /\ UNCHANGED sessVars
  /\ UNCHANGED svcVars

\* Promise.all fulfils when every element has: closeAll clears the registry
PromiseAllNotAwaited(a) == TRUE

PromiseAllFulfilled(a) == \A i \in DOMAIN a : a[i] = "ok"

\* Promise.all rejects as soon as one element has
PromiseAllRejected(a) == \E i \in DOMAIN a : a[i] = "failed"

Awaiting(a) == {i \in DOMAIN a : a[i] = "await"}

CloseAllReturn(c) ==
  /\ running = 0 /\ pc[c] = "closeAll"
  /\ PromiseAllFulfilled(att[c])
  /\ providers' = EmptyMap
  /\ epoch' = epoch + 1
  /\ ret' = Report(c,
       [NoRet EXCEPT !.op = "closeAll", !.outcome = "ok",
                     !.registered = frame[c].registered,
                     !.invoked = DOMAIN att[c],
                     !.inflight = Awaiting(att[c]),
                     !.emptied = (DOMAIN providers' = {})])
  /\ att' = [att EXCEPT ![c] = EmptyMap]
  /\ pc' = [pc EXCEPT ![c] = "idle"]
  /\ frame' = [frame EXCEPT ![c] = NoFrame]
  /\ UNCHANGED <<config, connection, connectionEvents, listeners, readyState,
                 running, ops, born, life>>
  /\ UNCHANGED held
  /\ UNCHANGED tokVars
  /\ UNCHANGED provVars
  /\ UNCHANGED refVars
  /\ UNCHANGED sessVars
  /\ UNCHANGED svcVars

CloseAllThrow(c) ==
  /\ running = 0 /\ pc[c] = "closeAll"
  /\ PromiseAllRejected(att[c])
  /\ ret' = Report(c,
       [NoRet EXCEPT !.op = "closeAll", !.outcome = "failed",
                     !.registered = frame[c].registered,
                     !.invoked = DOMAIN att[c],
                     !.inflight = Awaiting(att[c]),
                     !.emptied = (DOMAIN providers = {})])
  /\ att' = [att EXCEPT ![c] = [i \in Awaiting(att[c]) |-> "await"]]
  /\ pc' = [pc EXCEPT ![c] = "idle"]
  /\ frame' = [frame EXCEPT ![c] = NoFrame]
  /\ UNCHANGED <<providers, config, connection, connectionEvents, listeners,
                 readyState, running, ops, epoch, born, life>>
  /\ UNCHANGED held
  /\ UNCHANGED tokVars
  /\ UNCHANGED provVars
  /\ UNCHANGED refVars
  /\ UNCHANGED sessVars
  /\ UNCHANGED svcVars

\* ------------------------------------------------------- backend signals

\* the server drops the connection: mongoose emits 'disconnected'
BackendDrop ==
  /\ running = 0 /\ ops < MaxOps
  /\ readyState = Connected
  /\ ops' = ops + 1
  /\ readyState' = Disconnected
  /\ connectionEvents' = Emit(connectionEvents, "disconnected")
  /\ UNCHANGED <<providers, config, connection, listeners, running, pc, frame,
                 att, ret, epoch, born, life>>
  /\ UNCHANGED held
  /\ UNCHANGED tokVars
  /\ UNCHANGED provVars
  /\ UNCHANGED refVars
  /\ UNCHANGED sessVars
  /\ UNCHANGED svcVars

\* the driver reports an error on the open connection: mongoose emits 'error'
BackendError ==
  /\ running = 0 /\ ops < MaxOps
  /\ readyState = Connected
  /\ ops' = ops + 1
  /\ connectionEvents' = Emit(connectionEvents, "error")
  /\ UNCHANGED <<providers, config, connection, listeners, readyState, running,
                 pc, frame, att, ret, epoch, born, life>>
  /\ UNCHANGED held
  /\ UNCHANGED tokVars
  /\ UNCHANGED provVars
  /\ UNCHANGED refVars
  /\ UNCHANGED sessVars
  /\ UNCHANGED svcVars

\* ------------------------------------------ MongoDBProvider.getConnection

\* getConnection(): the handle, or the error 'MongoDB connection not established'
GetConnection(c, i) ==
  /\ running = 0 /\ pc[c] = "idle" /\ ops < MaxOps
  /\ i \in Instances
  /\ ops' = ops + 1
  /\ ret' = Report(c,
       [NoRet EXCEPT !.op = "getConnection", !.self = i,
                     !.outcome = IF HasHandle(i) THEN "ok" ELSE "notEstablished",
                     !.value = IF HasHandle(i) THEN i ELSE 0])
  /\ UNCHANGED <<providers, config, connection, connectionEvents, listeners,
                 readyState, running, pc, frame, att, epoch, born, life>>
  /\ UNCHANGED held
  /\ UNCHANGED tokVars
  /\ UNCHANGED provVars
  /\ UNCHANGED refVars
  /\ UNCHANGED sessVars
  /\ UNCHANGED svcVars

\* ---------------------------------------- MongoDBProvider.executeRawQuery

\* a query string JSON.parse accepts, and one it throws on
Queries == {"command", "malformed"}

\* the guard of executeRawQuery: `if (!this.isConnected())`
QueryGuardOpen(i) == TRUE

QueryGuard(i) == IsConnected(i)

\* executeRawQuery(), up to `await db.command(command)`
ExecuteRawQuery(c, i, q) ==
  /\ running = 0 /\ pc[c] = "idle" /\ ops < MaxOps
  /\ i \in Instances
  /\ ops' = ops + 1
  /\ IF ~QueryGuard(i)
     THEN /\ ret' = Report(c,
               [NoRet EXCEPT !.op = "executeRawQuery", !.self = i,
                             !.outcome = "notConnected"])
          /\ UNCHANGED <<pc, frame, sent>>
     ELSE IF q = "malformed"
     THEN /\ ret' = Report(c,
               [NoRet EXCEPT !.op = "executeRawQuery", !.self = i,
                             !.outcome = "failed"])
          /\ UNCHANGED <<pc, frame, sent>>
     ELSE /\ sent' = sent + 1
          /\ pc' = [pc EXCEPT ![c] = "command"]
          /\ frame' = [frame EXCEPT ![c] = [NoFrame EXCEPT !.self = i]]
          /\ UNCHANGED ret
  /\ UNCHANGED <<providers, config, connection, connectionEvents, listeners,
                 readyState, running, att, epoch, born, life>>
  /\ UNCHANGED held
  /\ UNCHANGED tokVars
  /\ UNCHANGED views
  /\ UNCHANGED refVars
  /\ UNCHANGED sessVars

\* db.command fulfils: executeRawQuery returns the backend's answer
CommandResolve(c) ==
  /\ running = 0 /\ pc[c] = "command"
  /\ ret' = Report(c,
       [NoRet EXCEPT !.op = "executeRawQuery", !.self = frame[c].self,
                     !.outcome = "ok"])
  /\ pc' = [pc EXCEPT ![c] = "idle"]
  /\ frame' = [frame EXCEPT ![c] = NoFrame]
  /\ UNCHANGED <<providers, config, connection, connectionEvents, listeners,
                 readyState, running, att, ops, epoch, born, life>>
  /\ UNCHANGED held
  /\ UNCHANGED tokVars
  /\ UNCHANGED provVars
  /\ UNCHANGED refVars
  /\ UNCHANGED sessVars

\* db.command rejects: the catch block logs and rethrows
CommandReject(c) ==
  /\ running = 0 /\ pc[c] = "command"
  /\ ret' = Report(c,
       [NoRet EXCEPT !.op = "executeRawQuery", !.self = frame[c].self,
                     !.outcome = "failed"])
  /\ pc' = [pc EXCEPT ![c] = "idle"]
  /\ frame' = [frame EXCEPT ![c] = NoFrame]
  /\ UNCHANGED <<providers, config, connection, connectionEvents, listeners,
                 readyState, running, att, ops, epoch, born, life>>
  /\ UNCHANGED held
  /\ UNCHANGED tokVars
  /\ UNCHANGED provVars
  /\ UNCHANGED refVars
  /\ UNCHANGED sessVars

\* ------------------------------------ MongoDBProvider.getConnectionEvents

\* ConnectionEvent.type
EventKinds == {"connected", "disconnected", "error"}

\* an element of a returned array is the event object at a position of the
\* provider's log (its position, from 1), or an object the caller made itself
OwnEvent == 0

NoView == [self |-> 0, items |-> <<>>]

\* `[...this.connectionEvents]`: a new array holding the same event objects
SpreadCopy(log) == [k \in 1..Len(log) |-> k]

\* what a getConnectionEvents() call returns, read element by element
Returned(i) == [k \in 1..Len(connectionEvents[i]) |-> connectionEvents[i][k]]

Reverse(seq) == [k \in 1..Len(seq) |-> seq[Len(seq) + 1 - k]]

\* getConnectionEvents()
GetConnectionEvents(c, i) ==
  /\ running = 0 /\ pc[c] = "idle" /\ ops < MaxOps
  /\ i \in Instances
  /\ ops' = ops + 1
  /\ views' = [views EXCEPT ![c] =
       [self |-> i, items |-> SpreadCopy(connectionEvents[i])]]
  /\ ret' = Report(c,
       [NoRet EXCEPT !.op = "getConnectionEvents", !.self = i,
                     !.outcome = "ok"])
  /\ UNCHANGED <<providers, config, connection, connectionEvents, listeners,
                 readyState, running, pc, frame, att, epoch, born, life>>
  /\ UNCHANGED held
  /\ UNCHANGED tokVars
  /\ UNCHANGED sent
  /\ UNCHANGED refVars
  /\ UNCHANGED sessVars
  /\ UNCHANGED svcVars

\* the caller adds an entry to, removes an entry from, or reorders the array
\* it was given
MutateArray(c, how) ==
  /\ running = 0 /\ pc[c] = "idle" /\ ops < MaxOps
  /\ views[c].self # 0
  /\ ops' = ops + 1
  /\ LET items == views[c].items
     IN CASE how = "push" ->
               views' = [views EXCEPT ![c].items = Append(items, OwnEvent)]
          [] how = "pop" ->
               /\ Len(items) > 0
               /\ views' = [views EXCEPT ![c].items = SubSeq(items, 1, Len(items) - 1)]
          [] how = "reverse" ->
               /\ Len(items) > 1
               /\ views' = [views EXCEPT ![c].items = Reverse(items)]
  /\ UNCHANGED dbVarsButOps
  /\ UNCHANGED tokVars
  /\ UNCHANGED sent
  /\ UNCHANGED refVars
  /\ UNCHANGED sessVars
  /\ UNCHANGED svcVars

\* the caller assigns the `type` field of the k-th entry of the array it was
\* given: the entry is the log's own event object
MutateField(c, k, kind) ==
  /\ running = 0 /\ pc[c] = "idle" /\ ops < MaxOps
  /\ views[c].self # 0
  /\ k \in DOMAIN views[c].items
  /\ views[c].items[k] # OwnEvent
  /\ ops' = ops + 1
  /\ connectionEvents' =
       [connectionEvents EXCEPT ![views[c].self][views[c].items[k]] = kind]
  /\ UNCHANGED <<providers, config, connection, listeners, readyState, running,
                 pc, frame, att, ret, epoch, born, life>>
  /\ UNCHANGED held
  /\ UNCHANGED tokVars
  /\ UNCHANGED provVars
  /\ UNCHANGED refVars
  /\ UNCHANGED sessVars
  /\ UNCHANGED svcVars


\* ========================================================= token layer

\* TokenType
ACCESS == "access"
REFRESH == "refresh"
TokenTypes == {ACCESS, REFRESH}

\* expiresIn: '15m' and '7d', in seconds
AccessTtl == 900
RefreshTtl == 604800

\* config.jwt.secret, and a key the server does not hold
Secret == "secret"
OtherKey == "other"

\* two IUser documents; _id is an ObjectId (oid) or already a string
Users ==
  { [_id |-> [oid |-> TRUE, str |-> "u1"], username |-> "alice", role |-> "user"],
    [_id |-> [oid |-> FALSE, str |-> "u2"], username |-> "bob", role |-> "admin"] }

\* clock advances used to reach both sides of each expiry
TickSteps == {1, 899, 603901}

NoPayload == [id |-> "", username |-> "", role |-> "", type |-> "",
              iat |-> -1, exp |-> -1]

\* `user._id instanceof Object ? user._id.toString() : String(user._id)`
IdString(_id) == _id.str

\* HMAC of the payload under a key
Mac(key, payload) == [key |-> key, over |-> payload]

NoSig == Mac("", NoPayload)

\* not a token at all: undefined / empty string, and a string that is no JWT
Missing == [form |-> "missing", payload |-> NoPayload, sig |-> NoSig]
Garbage == [form |-> "garbage", payload |-> NoPayload, sig |-> NoSig]

\* jwt.sign(payload, key, {expiresIn}) at time t
JwtSign(payload, key, expiresIn, t) ==
  LET p == [payload EXCEPT !.iat = t, !.exp = t + expiresIn]
  IN [form |-> "jwt", payload |-> p, sig |-> Mac(key, p)]

\* jwt.verify(token, key) at time t: the decoded payload, or the error thrown
JwtVerify(token, key, t) ==
  CASE token.form = "missing" ->
         [ok |-> FALSE, err |-> "jwt must be provided", payload |-> NoPayload]
    [] token.form = "garbage" ->
         [ok |-> FALSE, err |-> "jwt malformed", payload |-> NoPayload]
    [] token.sig # Mac(key, token.payload) ->
         [ok |-> FALSE, err |-> "invalid signature", payload |-> NoPayload]
    [] t >= token.payload.exp ->
         [ok |-> FALSE, err |-> "jwt expired", payload |-> NoPayload]
    [] OTHER ->
         [ok |-> TRUE, err |-> "", payload |-> token.payload]

\* the TokenPayload both generators build
Payload(user, type) ==
  [NoPayload EXCEPT !.id = IdString(user._id), !.username = user.username,
                    !.role = user.role, !.type = type]

\* TokenService.generateAccessToken
GenerateAccessTokenOneDay(user, t) == JwtSign(Payload(user, ACCESS), Secret, 86400, t)

GenerateAccessToken(user, t) == JwtSign(Payload(user, ACCESS), Secret, AccessTtl, t)

\* TokenService.generateRefreshToken
GenerateRefreshTokenAsAccess(user, t) == JwtSign(Payload(user, ACCESS), Secret, RefreshTtl, t)

GenerateRefreshToken(user, t) == JwtSign(Payload(user, REFRESH), Secret, RefreshTtl, t)

\* TokenService.verifyToken: null (valid = FALSE) or the decoded payload;
\* raised tells whether an exception left the method
VerifyTokenNoTypeCheck(token, type, t) ==
  LET decoded == JwtVerify(token, Secret, t)
  IN IF ~decoded.ok
     THEN [raised |-> FALSE, valid |-> FALSE, claims |-> NoPayload]
     ELSE [raised |-> FALSE, valid |-> TRUE, claims |-> decoded.payload]

VerifyTokenNoCatch(token, type, t) ==
  LET decoded == JwtVerify(token, Secret, t)
  IN IF ~decoded.ok
     THEN [raised |-> TRUE, valid |-> FALSE, claims |-> NoPayload]
     ELSE IF decoded.payload.type # type
     THEN [raised |-> FALSE, valid |-> FALSE, claims |-> NoPayload]
     ELSE [raised |-> FALSE, valid |-> TRUE, claims |-> decoded.payload]

VerifyTokenRevoking(token, type, t) ==
  LET decoded == JwtVerify(token, Secret, t)
  IN IF ~decoded.ok \/ decoded.payload.type # type
        \/ (rq.stage = "done" /\ token = rq.cookie)
     THEN [raised |-> FALSE, valid |-> FALSE, claims |-> NoPayload]
     ELSE [raised |-> FALSE, valid |-> TRUE, claims |-> decoded.payload]

VerifyToken(token, type, t) ==
  LET decoded == JwtVerify(token, Secret, t)
  IN IF ~decoded.ok
     THEN [raised |-> FALSE, valid |-> FALSE, claims |-> NoPayload]
     ELSE IF decoded.payload.type # type
     THEN [raised |-> FALSE, valid |-> FALSE, claims |-> NoPayload]
     ELSE [raised |-> FALSE, valid |-> TRUE, claims |-> decoded.payload]

\* ---- what a client can put in a cookie or header

OtherType(type) == IF type = ACCESS THEN REFRESH ELSE ACCESS

\* the kind field rewritten, signature kept
Retyped(tk) == [tk EXCEPT !.payload.type = OtherType(@)]

\* the expiry pushed back, signature kept
Extended(tk) == [tk EXCEPT !.payload.exp = @ + RefreshTtl]

\* the same payload signed with a key that is not the server's
Forged(tk) == [tk EXCEPT !.sig = Mac(OtherKey, tk.payload)]

NoPair == [user |-> 0, accessToken |-> Missing, refreshToken |-> Missing]

Genuine == {tk \in {lastPair.accessToken, lastPair.refreshToken} : tk.form = "jwt"}

Presentable ==
  Genuine \cup {Retyped(tk) : tk \in Genuine} \cup {Extended(tk) : tk \in Genuine}
          \cup {Forged(tk) : tk \in Genuine} \cup {Missing, Garbage}

\* Authorization header: absent, or a scheme and a credential
NoHeader == [scheme |-> "", cred |-> Missing]
Headers == {NoHeader} \cup [scheme : {"Bearer", "Basic"}, cred : Presentable]

\* requests to a protected route: a cookie alone, a header alone, or both
Requests ==
  [cookie : Presentable, header : {NoHeader}]
    \cup [cookie : {Missing}, header : Headers]
    \cup [cookie : Genuine \cup {Garbage}, header : [scheme : {"Bearer"}, cred : Genuine]]

\* routes mounted behind authenticateJwt
ProtectedRoutes == {"GET /me", "GET /:id", "PUT /:id", "DELETE /:id"}

Truthy(tk) == tk.form # "missing"

\* authenticateJwt: the token it picks
GuardToken(cookie, header) ==
  IF ~Truthy(cookie) /\ header # NoHeader /\ header.scheme = "Bearer"
  THEN header.cred ELSE cookie

\* authenticateJwt: the decision on the picked token at time t
GuardDecision(token, t) ==
  IF ~Truthy(token)
  THEN [status |-> 401, nextCalled |-> FALSE, user |-> NoPayload]
  ELSE LET decoded == JwtVerify(token, Secret, t)
       IN IF decoded.ok
          THEN [status |-> 0, nextCalled |-> TRUE, user |-> decoded.payload]
          ELSE [status |-> 401, nextCalled |-> FALSE, user |-> NoPayload]

NoVerify == [token |-> Missing, type |-> "",
             result |-> [raised |-> FALSE, valid |-> FALSE, claims |-> NoPayload]]

NoGuard == [route |-> "", token |-> Missing,
            decision |-> [status |-> 0, nextCalled |-> FALSE, user |-> NoPayload]]

\* time passes
Tick(d) ==
  /\ ticks < MaxTicks
  /\ ticks' = ticks + 1
  /\ now' = now + d
  /\ lastVerify' = NoVerify
  /\ lastGuard' = NoGuard
  /\ UNCHANGED <<issued, lastPair>>
  /\ UNCHANGED dbVars
  /\ UNCHANGED provVars
  /\ UNCHANGED refVars
  /\ UNCHANGED sessVars
  /\ UNCHANGED svcVars

\* TokenService.generateAuthTokens
GenerateAuthTokens(user) ==
  /\ issued < MaxIssues
  /\ issued' = issued + 1
  /\ lastPair' = [user |-> user,
                  accessToken |-> GenerateAccessToken(user, now),
                  refreshToken |-> GenerateRefreshToken(user, now)]
  /\ lastVerify' = NoVerify
  /\ lastGuard' = NoGuard
  /\ UNCHANGED <<now, ticks>>
  /\ UNCHANGED dbVars
  /\ UNCHANGED provVars
  /\ UNCHANGED refVars
  /\ UNCHANGED sessVars
  /\ UNCHANGED svcVars

\* a caller runs TokenService.verifyToken
VerifyTokenCall(token, type) ==
  /\ lastVerify' = [token |-> token, type |-> type,
                    result |-> VerifyToken(token, type, now)]
  /\ lastGuard' = NoGuard
  /\ UNCHANGED <<now, ticks, issued, lastPair>>
  /\ UNCHANGED dbVars
  /\ UNCHANGED provVars
  /\ UNCHANGED refVars
  /\ UNCHANGED sessVars
  /\ UNCHANGED svcVars

\* a request to a protected route passes through authenticateJwt
AuthenticateJwt(route, cookie, header) ==
  /\ lastGuard' = [route |-> route, token |-> GuardToken(cookie, header),
                   decision |-> GuardDecision(GuardToken(cookie, header), now)]
  /\ lastVerify' = NoVerify
  /\ UNCHANGED <<now, ticks, issued, lastPair>>
  /\ UNCHANGED dbVars
  /\ UNCHANGED provVars
  /\ UNCHANGED refVars
  /\ UNCHANGED sessVars
  /\ UNCHANGED svcVars

\* ===================================================== refresh endpoint

\* the two session cookies
CookieNames == {"access_token", "refresh_token"}

NoCookies == [access_token |-> Missing, refresh_token |-> Missing]

\* null, as returned by User.findById for an id the collection does not hold
NoUser == [_id |-> [oid |-> FALSE, str |-> ""], username |-> "", role |-> ""]

\* User.findById(id).select('-password')
FindById(id) ==
  IF \E u \in store : IdString(u._id) = id
  THEN CHOOSE u \in store : IdString(u._id) = id
  ELSE NoUser

\* `if (!refreshToken)` in refreshToken: the cookie is there
HasRefreshCookieAlways(cookie) == TRUE

HasRefreshCookie(cookie) == Truthy(cookie)

\* TokenService.clearAuthCookies: clearCookie for both names
ClearAuthCookiesAccessOnly(cleared) == cleared \cup {"access_token"}

ClearAuthCookies(cleared) == cleared \cup {"access_token", "refresh_token"}

\* the principal refreshToken hands to setAuthCookies: the document it
\* looked up, not the claims it decoded
ReissueForPresented(decoded, user) ==
  [user EXCEPT !.username = decoded.username, !.role = decoded.role]

ReissueFor(decoded, user) == user

\* TokenService.setAuthCookies at time t: both cookies, from generateAuthTokens
SetAuthCookiesSwapped(user, t) ==
  [access_token |-> GenerateRefreshToken(user, t),
   refresh_token |-> GenerateAccessToken(user, t)]

SetAuthCookies(user, t) ==
  [access_token |-> GenerateAccessToken(user, t),
   refresh_token |-> GenerateRefreshToken(user, t)]

\* ---- the options of the session cookies, and the headers Express writes

\* cookieOptions
CookieOptionsNoneAlways(prod) ==
  [httpOnly |-> TRUE, secure |-> prod, sameSite |-> "none", path |-> "/"]

CookieOptions(prod) ==
  [httpOnly |-> TRUE, secure |-> prod,
   sameSite |-> IF prod THEN "none" ELSE "lax", path |-> "/"]

\* maxAge of the two cookies, in milliseconds
AccessTokenMaxAgeInSeconds == 15 * 60

AccessTokenMaxAge == 15 * 60 * 1000

RefreshTokenMaxAge == 7 * 24 * 60 * 60 * 1000

\* `{ ...cookieOptions, maxAge }`
Spread(o, ms) ==
  [httpOnly |-> o.httpOnly, secure |-> o.secure, sameSite |-> o.sameSite,
   path |-> o.path, maxAge |-> ms]

AccessTokenCookieOptions(prod) == Spread(CookieOptions(prod), AccessTokenMaxAge)

RefreshTokenCookieOptions(prod) == Spread(CookieOptions(prod), RefreshTokenMaxAge)

\* the options clearAuthCookies passes to clearCookie
ClearOptionsDefault(prod) ==
  [httpOnly |-> FALSE, secure |-> FALSE, sameSite |-> "", path |-> "/"]

ClearOptions(prod) == CookieOptions(prod)

\* a header without Max-Age
NoMaxAge == -1

\* res.cookie(name, value, options): one Set-Cookie header; Max-Age is
\* options.maxAge in whole seconds
ResCookie(name, value, options) ==
  [name |-> name, value |-> value,
   httpOnly |-> options.httpOnly, secure |-> options.secure,
   sameSite |-> options.sameSite, path |-> options.path,
   maxAge |-> IF "maxAge" \in DOMAIN options
              THEN options.maxAge \div 1000 ELSE NoMaxAge,
   expired |-> FALSE]

\* res.clearCookie(name, options): an empty value that expired at the epoch,
\* unless the options carry a maxAge, which replaces the expiry
ResClearCookie(name, options) ==
  [ResCookie(name, Missing, options) EXCEPT
     !.expired = ("maxAge" \notin DOMAIN options)]

\* the headers of setAuthCookies: access_token first, then refresh_token
SetAuthCookieHeadersAccessOnly(user, t, prod) ==
  << ResCookie("access_token", SetAuthCookies(user, t).access_token,
               AccessTokenCookieOptions(prod)) >>

SetAuthCookieHeaders(user, t, prod) ==
  << ResCookie("access_token", SetAuthCookies(user, t).access_token,
               AccessTokenCookieOptions(prod)),
     ResCookie("refresh_token", SetAuthCookies(user, t).refresh_token,
               RefreshTokenCookieOptions(prod)) >>

\* the headers of clearAuthCookies
IsCleared(h) == h.name \in ClearAuthCookies({})

ClearAuthCookieHeaders(prod) ==
  SelectSeq(<< ResClearCookie("access_token", ClearOptions(prod)),
               ResClearCookie("refresh_token", ClearOptions(prod)) >>,
            IsCleared)

\* the routes that use the session cookies, and a response: status, the
\* Set-Cookie headers in the order written, and the user of the JSON body
Routes == {"login", "refresh", "logout"}

NoRes == [status |-> 0, setCookie |-> <<>>, user |-> NoUser]

RespondOk(r, route, status, headers, user) ==
  [r EXCEPT ![route] =
     [status |-> 200, setCookie |-> headers, user |-> user]]

Respond(r, route, status, headers, user) ==
  [r EXCEPT ![route] =
     [status |-> status, setCookie |-> headers, user |-> user]]

\* a request record: the cookie presented, what the handler did, and the
\* response (status, cookies set, cookies cleared)
NoRq == [stage |-> "none", cookie |-> Missing, at |-> 0, verified |-> FALSE,
         valid |-> FALSE, decoded |-> NoPayload, lookedUp |-> FALSE,
         present |-> FALSE, found |-> NoUser, status |-> 0,
         set |-> NoCookies, cleared |-> {}]

\* UserController.refreshToken, up to `await userService.findUserById(...)`
RefreshToken(cookie) ==
  /\ rq.stage # "lookup"
  /\ LET r == [NoRq EXCEPT !.cookie = cookie, !.at = now]
         decoded == VerifyToken(cookie, REFRESH, now)
     IN IF ~HasRefreshCookie(cookie)
        THEN rq' = [r EXCEPT !.stage = "rejected", !.status = 401]
        ELSE IF ~decoded.valid
        THEN rq' = [r EXCEPT !.verified = TRUE,
                             !.cleared = ClearAuthCookies(@),
                             !.stage = "rejected", !.status = 401]
        ELSE rq' = [r EXCEPT !.verified = TRUE, !.valid = TRUE,
                             !.decoded = decoded.claims,
                             !.lookedUp = TRUE, !.stage = "lookup"]
  /\ res' = IF rq'.stage = "lookup"
            THEN [res EXCEPT !["refresh"] = NoRes]
            ELSE Respond(res, "refresh", rq'.status,
                         IF rq'.cleared = {} THEN <<>>
                         ELSE ClearAuthCookieHeaders(isProduction), NoUser)
  /\ UNCHANGED store
  /\ UNCHANGED dbVars
  /\ UNCHANGED tokVars
  /\ UNCHANGED provVars
  /\ UNCHANGED <<isProduction, lg>>
  /\ UNCHANGED svcVars

\* findUserById fulfils: 404 for null, otherwise new cookies and 200
FindUserReturn ==
  /\ rq.stage = "lookup"
  /\ LET user == FindById(rq.decoded.id)
     IN /\ IF user = NoUser
           THEN rq' = [rq EXCEPT !.cleared = ClearAuthCookies(@),
                                 !.stage = "rejected", !.status = 404]
           ELSE rq' = [rq EXCEPT !.present = TRUE, !.found = user,
                                 !.set = SetAuthCookies(ReissueFor(rq.decoded, user), now),
                                 !.stage = "done", !.status = 200]
        /\ res' = IF user = NoUser
                  THEN Respond(res, "refresh", 404,
                               ClearAuthCookieHeaders(isProduction), NoUser)
                  ELSE Respond(res, "refresh", 200,
                               SetAuthCookieHeaders(ReissueFor(rq.decoded, user),
                                                    now, isProduction), NoUser)
  /\ UNCHANGED store
  /\ UNCHANGED dbVars
  /\ UNCHANGED tokVars
  /\ UNCHANGED provVars
  /\ UNCHANGED <<isProduction, lg>>
  /\ UNCHANGED svcVars

\* findUserById rejects (the storage layer failed): the catch block answers 500
FindUserThrow ==
  /\ rq.stage = "lookup"
  /\ rq' = [rq EXCEPT !.present = (FindById(rq.decoded.id) # NoUser),
                      !.stage = "failed", !.status = 500]
  /\ res' = Respond(res, "refresh", 500, <<>>, NoUser)
  /\ UNCHANGED store
  /\ UNCHANGED dbVars
  /\ UNCHANGED tokVars
  /\ UNCHANGED provVars
  /\ UNCHANGED <<isProduction, lg>>
  /\ UNCHANGED svcVars

\* UserService.deleteUser
DeleteUser(u) ==
  /\ u \in store
  /\ store' = store \ {u}
  /\ UNCHANGED rq
  /\ UNCHANGED dbVars
  /\ UNCHANGED tokVars
  /\ UNCHANGED provVars
  /\ UNCHANGED sessVars
  /\ UNCHANGED svcVars

\* UserService.updateUser changing the role
UpdateUserRole(u) ==
  /\ u \in store
  /\ store' = (store \ {u}) \cup
                 {[u EXCEPT !.role = IF @ = "user" THEN "admin" ELSE "user"]}
  /\ UNCHANGED rq
  /\ UNCHANGED dbVars
  /\ UNCHANGED tokVars
  /\ UNCHANGED provVars
  /\ UNCHANGED sessVars
  /\ UNCHANGED svcVars

\* ====================================================== specifications

InitDb ==
  /\ providers = EmptyMap
  /\ config = <<>>
  /\ connection = <<>>
  /\ connectionEvents = <<>>
  /\ listeners = <<>>
  /\ readyState = Disconnected
  /\ running = 0
  /\ pc = [c \in Callers |-> "idle"]
  /\ frame = [c \in Callers |-> NoFrame]
  /\ att = [c \in Callers |-> EmptyMap]
  /\ ret = NoRet
  /\ held = [c \in Callers |-> NoHeld]
  /\ ops = 0
  /\ epoch = 0
  /\ born = <<>>
  /\ life = <<>>

InitTok ==
  /\ now = 0
  /\ ticks = 0
  /\ issued = 0
  /\ lastPair = NoPair
  /\ lastVerify = NoVerify
  /\ lastGuard = NoGuard

\* ------------------------------------------------ login and logout

\* req.body of POST /api/auth/login: '' stands for an absent field
Usernames == {"", "alice", "mallory"}
Passwords == {"", "right", "wrong"}

\* no login being served
NoLg == [stage |-> "none", username |-> "", password |-> ""]

\* User.findOne({ username })
FindOne(username) ==
  IF \E u \in store : u.username = username
  THEN CHOOSE u \in store : u.username = username
  ELSE NoUser

\* user.comparePassword(password)
ComparePasswordAlways(user, password) == TRUE

ComparePassword(user, password) == password = "right"

\* UserService.authenticateUser: the user, or null
AuthenticateUserResult(username, password) ==
  IF FindOne(username) = NoUser THEN NoUser
  ELSE IF ~ComparePassword(FindOne(username), password) THEN NoUser
  ELSE FindOne(username)

\* UserController.authenticateUser, up to `await userService.authenticateUser`
AuthenticateUser(username, password) ==
  /\ lg.stage # "auth"
  /\ issued < MaxIssues
  /\ IF username = "" \/ password = ""
     THEN /\ res' = Respond(res, "login", 400, <<>>, NoUser)
          /\ lg' = NoLg
     ELSE /\ res' = [res EXCEPT !["login"] = NoRes]
          /\ lg' = [stage |-> "auth", username |-> username,
                    password |-> password]
  /\ UNCHANGED isProduction
  /\ UNCHANGED dbVars
  /\ UNCHANGED tokVars
  /\ UNCHANGED provVars
  /\ UNCHANGED refVars
  /\ UNCHANGED svcVars

\* authenticateUser fulfils: 401 for null, otherwise both cookies and 200
AuthenticateUserReturn ==
  /\ lg.stage = "auth"
  /\ LET user == AuthenticateUserResult(lg.username, lg.password)
     IN IF user = NoUser
        THEN /\ res' = Respond(res, "login", 401, <<>>, NoUser)
             /\ UNCHANGED <<issued, lastPair>>
        ELSE /\ res' = Respond(res, "login", 200,
                               SetAuthCookieHeaders(user, now, isProduction),
                               user)
             /\ issued' = issued + 1
             /\ lastPair' = [user |-> user,
                             accessToken |-> SetAuthCookies(user, now).access_token,
                             refreshToken |-> SetAuthCookies(user, now).refresh_token]
  /\ lg' = NoLg
  /\ UNCHANGED <<now, ticks, lastVerify, lastGuard>>
  /\ UNCHANGED isProduction
  /\ UNCHANGED dbVars
  /\ UNCHANGED provVars
  /\ UNCHANGED refVars
  /\ UNCHANGED svcVars

\* authenticateUser rejects: the catch block answers 500
AuthenticateUserThrow ==
  /\ lg.stage = "auth"
  /\ res' = Respond(res, "login", 500, <<>>, NoUser)
  /\ lg' = NoLg
  /\ UNCHANGED isProduction
  /\ UNCHANGED dbVars
  /\ UNCHANGED tokVars
  /\ UNCHANGED provVars
  /\ UNCHANGED refVars
  /\ UNCHANGED svcVars

\* UserController.logout
Logout ==
  /\ res' = Respond(res, "logout", 200,
                    ClearAuthCookieHeaders(isProduction), NoUser)
  /\ UNCHANGED <<isProduction, lg>>
  /\ UNCHANGED dbVars
  /\ UNCHANGED tokVars
  /\ UNCHANGED provVars
  /\ UNCHANGED refVars
  /\ UNCHANGED svcVars

\* ------------------------------------------------------ DatabaseService
\* The service wraps the provider its constructor obtained from the factory.
\* The provider's actions above leave svc to the action that uses them: the
\* provider called on its own keeps svc, the service records its call in it.

\* this.provider
ServiceProvider == ExistingProvider("mongodb")

\* the provider's call ended by throwing
Threw(r) == r.outcome \in {"failed", "notConnected"}

\* the catch block of connect, disconnect and executeRawQuery: log, `throw error`
ServiceCatchSwallow(error) == ""

ServiceCatch(error) == error

\* no DatabaseService call yet
NoSvc == [op |-> "none", stage |-> "none", attempts |-> 0, raised |-> "",
          surfaced |-> ""]

\* the service's call once the provider's call has ended with report r
ServiceSettle(s, r) ==
  IF Threw(r) /\ ServiceCatch(r.outcome) # ""
  THEN [s EXCEPT !.stage = "threw", !.raised = r.outcome,
                 !.surfaced = ServiceCatch(r.outcome)]
  ELSE [s EXCEPT !.stage = "returned",
                 !.raised = IF Threw(r) THEN r.outcome ELSE ""]

\* the service's call after it has invoked the provider: awaiting, or ended
ServiceCall(op, position, r) ==
  IF position = "idle"
  THEN ServiceSettle([NoSvc EXCEPT !.op = op, !.attempts = 1], r)
  ELSE [NoSvc EXCEPT !.op = op, !.stage = "await", !.attempts = 1]

\* DatabaseService.connect, up to the provider's await
ServiceConnect(c) ==
  /\ Connect(c, ServiceProvider)
  /\ svc' = [svc EXCEPT ![c] = ServiceCall("connect", pc'[c], ret')]

\* DatabaseService.disconnect, up to the provider's await
ServiceDisconnect(c) ==
  /\ Disconnect(c, ServiceProvider)
  /\ svc' = [svc EXCEPT ![c] = ServiceCall("disconnect", pc'[c], ret')]

\* DatabaseService.executeRawQuery, up to the provider's await
ServiceExecuteRawQuery(c, q) ==
  /\ ExecuteRawQuery(c, ServiceProvider, q)
  /\ svc' = [svc EXCEPT ![c] = ServiceCall("executeRawQuery", pc'[c], ret')]

\* the awaited provider call settles: the service returns, or its catch
\* block runs
ServiceSettled(c) ==
  /\ svc[c].stage = "await"
  /\ \/ ConnectResolve(c)
     \/ ConnectReject(c)
     \/ DisconnectResolve(c)
     \/ DisconnectReject(c)
     \/ CommandResolve(c)
     \/ CommandReject(c)
  /\ svc' = [svc EXCEPT ![c] = ServiceSettle(@, ret')]

\* ======================================================= UserService

\* createUser, findUserById, findUserByUsername, findUserByEmail, updateUser,
\* deleteUser and authenticateUser open alike: `if (!dbService.isConnected())
\* { await dbService.connect(); }` inside a try whose catch logs and rethrows.
UserOps == {"createUser", "findUserById", "findUserByUsername",
            "findUserByEmail", "updateUser", "deleteUser", "authenticateUser"}

\* no UserService operation yet
NoUs == [stage |-> "none", lazy |-> FALSE, touched |-> FALSE, error |-> ""]

\* the operation once `await dbService.connect()` has ended as s: a throw
\* goes to the catch block, a return goes on to the model call
AfterConnectProceed(u, s) == [u EXCEPT !.stage = "touching", !.touched = TRUE]

AfterConnect(u, s) ==
  IF s.stage = "threw"
  THEN [u EXCEPT !.stage = "failed", !.error = s.surfaced]
  ELSE [u EXCEPT !.stage = "touching", !.touched = TRUE]

\* a UserService operation, up to its first await
UserOpStart(c, op) ==
  /\ us[c].stage \notin {"connecting", "touching"}
  /\ IF IsConnected(ServiceProvider)
     THEN /\ running = 0 /\ pc[c] = "idle"
          /\ us' = [us EXCEPT ![c] =
               [NoUs EXCEPT !.stage = "touching", !.touched = TRUE]]
          /\ UNCHANGED <<dbVars, tokVars, provVars, refVars, sessVars, svc>>
     ELSE /\ ServiceConnect(c)
          /\ us' = [us EXCEPT ![c] =
               IF svc'[c].stage = "await"
               THEN [NoUs EXCEPT !.stage = "connecting", !.lazy = TRUE]
               ELSE AfterConnect([NoUs EXCEPT !.lazy = TRUE], svc'[c])]
  /\ UNCHANGED sd

\* the awaited dbService.connect() settles
UserOpConnectSettled(c) ==
  /\ us[c].stage = "connecting"
  /\ ServiceSettled(c)
  /\ us' = [us EXCEPT ![c] = AfterConnect(@, svc'[c])]
  /\ UNCHANGED sd

\* the awaited model call (save, findOne, findById, ...) settles
UserOpTouchSettled(c, ok) ==
  /\ running = 0
  /\ us[c].stage = "touching"
  /\ us' = [us EXCEPT ![c] =
       IF ok THEN [@ EXCEPT !.stage = "done"]
       ELSE [@ EXCEPT !.stage = "failed", !.error = "failed"]]
  /\ UNCHANGED <<dbVars, tokVars, provVars, refVars, sessVars, svc, sd>>

\* ======================================================= server process

\* startServer has not run yet
NoSd == [phase |-> "starting", starter |-> 0, pending |-> 0, callbacks |-> {},
         signals |-> 0, code |-> -1, by |-> 0]

\* process.exit(0) after the awaited disconnect returned, process.exit(1) in
\* the catch
ExitCodeZero(s) == 0

ExitCode(s) == IF s.stage = "returned" THEN 0 ELSE 1

\* startServer after `await dbService.connect()` has ended as s: the catch
\* exits with 1, otherwise app.listen and the two process.on calls run
Started(d, s) ==
  IF s.stage = "threw"
  THEN [d EXCEPT !.phase = "exited", !.code = 1]
  ELSE [d EXCEPT !.phase = "listening"]

\* startServer(), up to `await dbService.connect()`
StartServer(c) ==
  /\ sd.phase = "starting"
  /\ ServiceConnect(c)
  /\ sd' = IF svc'[c].stage = "await"
           THEN [sd EXCEPT !.phase = "connecting", !.starter = c]
           ELSE Started([sd EXCEPT !.starter = c], svc'[c])
  /\ UNCHANGED us

\* the awaited dbService.connect() of startServer settles
StartServerSettled(c) ==
  /\ sd.phase = "connecting" /\ sd.starter = c
  /\ ServiceSettled(c)
  /\ sd' = Started(sd, svc'[c])
  /\ UNCHANGED us

\* SIGTERM or SIGINT: gracefulShutdown calls server.close(callback)
Signal ==
  /\ running = 0
  /\ sd.phase \in {"listening", "closing", "closed"}
  /\ sd.signals < NumCallers
  /\ sd' = [sd EXCEPT !.phase = IF @ = "listening" THEN "closing" ELSE @,
                      !.pending = @ + 1, !.signals = @ + 1]
  /\ UNCHANGED <<dbVars, tokVars, provVars, refVars, sessVars, svc, us>>

\* the HTTP server has closed: its 'close' event
ServerClosed ==
  /\ running = 0
  /\ sd.phase = "closing"
  /\ sd' = [sd EXCEPT !.phase = "closed"]
  /\ UNCHANGED <<dbVars, tokVars, provVars, refVars, sessVars, svc, us>>

\* a server.close callback runs, up to `await dbService.disconnect()`
ShutdownCallback(c) ==
  /\ sd.phase = "closed" /\ sd.pending > 0
  /\ c \notin sd.callbacks
  /\ ServiceDisconnect(c)
  /\ sd' = [sd EXCEPT !.pending = @ - 1, !.callbacks = @ \cup {c}]
  /\ UNCHANGED us

\* the callback after `await dbService.disconnect()`: process.exit
ShutdownExit(c) ==
  /\ sd.phase = "closed" /\ c \in sd.callbacks
  /\ \/ ServiceSettled(c)
     \/ /\ running = 0 /\ svc[c].stage \in {"returned", "threw"}
        /\ UNCHANGED <<dbVars, tokVars, provVars, refVars, sessVars, svc>>
  /\ sd' = [sd EXCEPT !.phase = "exited", !.code = ExitCode(svc'[c]), !.by = c]
  /\ UNCHANGED us

InitProvOps ==
  /\ views = [c \in Callers |-> NoView]
  /\ sent = 0

InitSess ==
  /\ isProduction = FALSE
  /\ lg = NoLg
  /\ res = [route \in Routes |-> NoRes]

InitSvc ==
  /\ svc = [c \in Callers |-> NoSvc]
  /\ us = [c \in Callers |-> NoUs]
  /\ sd = NoSd

InitRef ==
  /\ store = Users
  /\ rq = NoRq

Init == InitDb /\ InitTok /\ InitProvOps /\ InitRef /\ InitSess /\ InitSvc

\* a process in which one MongoDBProvider has been constructed and registered
InitProv ==
  /\ providers = [t \in {"mongodb"} |-> 1]
  /\ config = <<"cfgA">>
  /\ connection = <<FALSE>>
  /\ connectionEvents = << <<>> >>
  /\ listeners = <<0>>
  /\ readyState = Disconnected
  /\ running = 0
  /\ pc = [c \in Callers |-> "idle"]
  /\ frame = [c \in Callers |-> NoFrame]
  /\ att = [c \in Callers |-> EmptyMap]
  /\ ret = NoRet
  /\ held = [c \in Callers |-> NoHeld]
  /\ ops = 0
  /\ epoch = 0
  /\ born = << <<"mongodb", 0>> >>
  /\ life = <<"new">>
  /\ InitTok
  /\ InitProvOps
  /\ InitRef
  /\ InitSess
  /\ InitSvc

NextDb ==
  \/ \E c \in Callers, t \in Types, cfg \in Configs : CreateProviderLookup(c, t, cfg)
  \/ \E c \in Callers : CreateProviderFinish(c)
  \/ \E c \in Callers, i \in Instances : Connect(c, i) /\ UNCHANGED svcVars
  \/ \E c \in Callers : ConnectResolve(c) /\ UNCHANGED svcVars
  \/ \E c \in Callers : ConnectReject(c) /\ UNCHANGED svcVars
  \/ \E c \in Callers, i \in Instances : Disconnect(c, i) /\ UNCHANGED svcVars
  \/ \E c \in Callers : DisconnectResolve(c) /\ UNCHANGED svcVars
  \/ \E c \in Callers : DisconnectReject(c) /\ UNCHANGED svcVars
  \/ \E c \in Callers : CloseAll(c)
  \/ \E c \in Callers, i \in Instances : CloseAllDisconnectResolve(c, i)
  \/ \E c \in Callers, i \in Instances : CloseAllDisconnectReject(c, i)
  \/ \E c \in Callers : CloseAllReturn(c)
  \/ \E c \in Callers : CloseAllThrow(c)
  \/ BackendDrop
  \/ BackendError

SpecDb == Init /\ [][NextDb]_vars

\* the factory alone: providers are created and the registry is emptied, and
\* no provider is ever connected
NextFactory ==
  \/ \E c \in Callers, t \in Types, cfg \in Configs : CreateProviderLookup(c, t, cfg)
  \/ \E c \in Callers : CreateProviderFinish(c)
  \/ \E c \in Callers : CloseAll(c)
  \/ \E c \in Callers : CloseAllReturn(c)

SpecFactory == Init /\ [][NextFactory]_vars

NextProv ==
  \/ \E c \in Callers, i \in Instances : Connect(c, i) /\ UNCHANGED svcVars
  \/ \E c \in Callers : ConnectResolve(c) /\ UNCHANGED svcVars
  \/ \E c \in Callers : ConnectReject(c) /\ UNCHANGED svcVars
  \/ \E c \in Callers, i \in Instances : Disconnect(c, i) /\ UNCHANGED svcVars
  \/ \E c \in Callers : DisconnectResolve(c) /\ UNCHANGED svcVars
  \/ \E c \in Callers : DisconnectReject(c) /\ UNCHANGED svcVars
  \/ BackendDrop
  \/ BackendError
  \/ \E c \in Callers, i \in Instances : GetConnection(c, i)
  \/ \E c \in Callers, i \in Instances, q \in Queries : ExecuteRawQuery(c, i, q) /\ UNCHANGED svcVars
  \/ \E c \in Callers : CommandResolve(c) /\ UNCHANGED svcVars
  \/ \E c \in Callers : CommandReject(c) /\ UNCHANGED svcVars
  \/ \E c \in Callers, i \in Instances : GetConnectionEvents(c, i)
  \/ \E c \in Callers, how \in {"push", "pop", "reverse"} : MutateArray(c, how)
  \/ \E c \in Callers : \E k \in DOMAIN views[c].items, kind \in EventKinds :
       MutateField(c, k, kind)

SpecProv == InitProv /\ [][NextProv]_vars

\* every call on the provider goes through dbService
NextSvc ==
  \/ \E c \in Callers : ServiceConnect(c) /\ UNCHANGED <<us, sd>>
  \/ \E c \in Callers : ServiceDisconnect(c) /\ UNCHANGED <<us, sd>>
  \/ \E c \in Callers, q \in Queries : ServiceExecuteRawQuery(c, q) /\ UNCHANGED <<us, sd>>
  \/ \E c \in Callers : ServiceSettled(c) /\ UNCHANGED <<us, sd>>
  \/ BackendDrop
  \/ BackendError

SpecSvc == InitProv /\ [][NextSvc]_vars

\* UserService operations, with backend signals in between
NextUser ==
  \/ \E c \in Callers, op \in UserOps : UserOpStart(c, op)
  \/ \E c \in Callers : UserOpConnectSettled(c)
  \/ \E c \in Callers, ok \in BOOLEAN : UserOpTouchSettled(c, ok)
  \/ BackendDrop
  \/ BackendError

SpecUser == InitProv /\ [][NextUser]_vars

\* the server process from startServer() to process.exit
NextShutdown ==
  \/ \E c \in Callers : StartServer(c)
  \/ \E c \in Callers : StartServerSettled(c)
  \/ Signal
  \/ ServerClosed
  \/ \E c \in Callers : ShutdownCallback(c)
  \/ \E c \in Callers : ShutdownExit(c)
  \/ sd.phase # "exited" /\ BackendDrop
  \/ sd.phase # "exited" /\ BackendError

SpecShutdown == InitProv /\ [][NextShutdown]_vars

NextTok ==
  \/ \E d \in TickSteps : Tick(d)
  \/ \E u \in Users : GenerateAuthTokens(u)
  \/ \E tk \in Presentable, type \in TokenTypes : VerifyTokenCall(tk, type)
  \/ \E r \in ProtectedRoutes, q \in Requests : AuthenticateJwt(r, q.cookie, q.header)

SpecTok == Init /\ [][NextTok]_vars

\* the clock step that takes a refresh token to its expiry
RefreshTickSteps == {RefreshTtl}

NextRefresh ==
  \/ \E d \in RefreshTickSteps : Tick(d)
  \/ \E u \in store : GenerateAuthTokens(u)
  \/ \E cookie \in Presentable : RefreshToken(cookie)
  \/ FindUserReturn
  \/ FindUserThrow
  \/ \E u \in store : DeleteUser(u)
  \/ \E u \in store : UpdateUserRole(u)

SpecRefresh == Init /\ [][NextRefresh]_vars

\* the three endpoints that write the session cookies, under either value of
\* the production flag
InitSession ==
  /\ InitDb /\ InitTok /\ InitProvOps /\ InitRef /\ InitSvc
  /\ isProduction \in BOOLEAN
  /\ lg = NoLg
  /\ res = [route \in Routes |-> NoRes]

SessionTickSteps == {AccessTtl}

\* the refresh_token cookie a browser sends: what login left, nothing, or junk
SessionCookies == Genuine \cup {Missing, Garbage}

NextSession ==
  \/ \E d \in SessionTickSteps : Tick(d)
  \/ \E username \in Usernames, password \in Passwords :
       AuthenticateUser(username, password)
  \/ AuthenticateUserReturn
  \/ AuthenticateUserThrow
  \/ Logout
  \/ \E cookie \in SessionCookies : RefreshToken(cookie)
  \/ FindUserReturn
  \/ FindUserThrow
  \/ \E u \in store : UpdateUserRole(u)

SpecSession == InitSession /\ [][NextSession]_vars

\* the promise of findUserById settles: the query answers or fails
SpecRefreshFair ==
  Init /\ [][NextRefresh]_vars /\ WF_vars(FindUserReturn \/ FindUserThrow)

\* ============================================================== claims

\* C1: a createProvider call for a type that is already registered returns
\* the registered instance, whatever config it is given, constructs nothing
\* and leaves the registry and every provider's config as they were.
C1_ReuseIsIdentityAndSilent ==
  [][\A c \in Callers :
       (pc[c] = "createProvider" /\ pc'[c] = "idle"
          /\ frame[c].type \in DOMAIN providers)
       => /\ ret'.caller = c
          /\ ret'.value = providers[frame[c].type]
          /\ providers' = providers
          /\ config' = config
          /\ connection' = connection
          /\ listeners' = listeners]_vars

\* a caller got the cached instance back although it passed another config
C1_Witness ==
  /\ ret.op = "createProvider" /\ ret.outcome = "reused"
  /\ ret.value \in Instances
  /\ config[ret.value] # ret.cfg

\* C2: however the callers' first createProvider calls for one type
\* interleave, one instance is constructed for that type per registry
\* content, and callers served from the same registry content hold the same
\* instance.
C2_NoDoubleConstruction ==
  /\ \A i, j \in Instances : born[i] = born[j] => i = j
  /\ \A c, d \in Callers :
       (held[c].value # 0 /\ held[d].value # 0 /\ held[c].epoch = held[d].epoch)
       => held[c].value = held[d].value

\* both callers asked for the same type; one call built the instance, the
\* other call, made later by the other caller, got that instance
C2_Witness ==
  \E c, d \in Callers :
    /\ c # d
    /\ ret.op = "createProvider" /\ ret.outcome = "reused" /\ ret.caller = d
    /\ held[c].value # 0
    /\ held[c] = held[d]

\* C3: a closeAll in which a disconnect failed has called disconnect on
\* every registered provider and leaves the registry empty.
C3_FailedCloseAllEmptiesRegistry ==
  (ret.op = "closeAll" /\ ret.outcome = "failed")
  => (ret.invoked = ret.registered /\ ret.emptied)

\* C4: when closeAll returns or throws, none of the disconnect calls it
\* made is still in progress.
C4_CloseAllReportsAfterAllAttempts ==
  ret.op = "closeAll" => ret.inflight = {}

\* closeAll reported a failure, and the failed disconnect was over by then
C4_Witness ==
  /\ ret.op = "closeAll" /\ ret.outcome = "failed"
  /\ ret.invoked # {} /\ ret.inflight = {}

\* C5: verifyToken rejects an access token where a refresh token is
\* expected, and a refresh token where an access token is expected.
C5_KindMismatchRejected ==
  /\ (lastVerify.token = lastPair.accessToken /\ lastVerify.token.form = "jwt"
        /\ lastVerify.type = REFRESH)
     => ~lastVerify.result.valid
  /\ (lastVerify.token = lastPair.refreshToken /\ lastVerify.token.form = "jwt"
        /\ lastVerify.type = ACCESS)
     => ~lastVerify.result.valid

\* an unexpired access token, signed by the server, was refused as a
\* refresh token
C5_Witness ==
  /\ lastVerify.token = lastPair.accessToken /\ lastVerify.token.form = "jwt"
  /\ lastVerify.type = REFRESH
  /\ now < lastVerify.token.payload.exp
  /\ ~lastVerify.result.valid

\* C6: authenticateJwt answers 401 and does not call next() when the token
\* it is given is an unexpired refresh token signed by the server.
C6_GuardRejectsRefreshToken ==
  (/\ lastGuard.route \in ProtectedRoutes
   /\ lastGuard.token = lastPair.refreshToken /\ lastGuard.token.form = "jwt"
   /\ now < lastGuard.token.payload.exp)
  => (lastGuard.decision.status = 401 /\ ~lastGuard.decision.nextCalled)

\* C7: verifyToken rejects a token whose exp is in the past, for either
\* expected kind; an access token is rejected more than 15 minutes after it
\* was issued and a refresh token more than 7 days after.
C7_ExpiredRejected ==
  /\ (lastVerify.token.form = "jwt" /\ lastVerify.token.payload.exp < now)
     => ~lastVerify.result.valid
  /\ (lastVerify.token = lastPair.accessToken /\ lastVerify.token.form = "jwt"
        /\ now - lastVerify.token.payload.iat > AccessTtl)
     => ~lastVerify.result.valid
  /\ (lastVerify.token = lastPair.refreshToken /\ lastVerify.token.form = "jwt"
        /\ now - lastVerify.token.payload.iat > RefreshTtl)
     => ~lastVerify.result.valid

\* a refresh token presented as a refresh token, more than 7 days old, was
\* refused
C7_Witness ==
  /\ lastVerify.token = lastPair.refreshToken /\ lastVerify.token.form = "jwt"
  /\ lastVerify.type = REFRESH
  /\ now - lastVerify.token.payload.iat > RefreshTtl
  /\ ~lastVerify.result.valid

\* the claims verifyToken must return for a token of `user` of kind `type`
ClaimsMatch(claims, user, type) ==
  /\ claims.id = IdString(user._id)
  /\ claims.username = user.username
  /\ claims.role = user.role
  /\ claims.type = type

\* C8: verified in the instant they were issued, the access token of a
\* generateAuthTokens pair passes as ACCESS and the refresh token as
\* REFRESH, each returning the principal's id, username and role and the
\* expected kind.
C8_IssueThenVerify ==
  /\ (lastVerify.token = lastPair.accessToken /\ lastVerify.token.form = "jwt"
        /\ lastVerify.type = ACCESS /\ lastVerify.token.payload.iat = now)
     => /\ lastVerify.result.valid
        /\ ClaimsMatch(lastVerify.result.claims, lastPair.user, ACCESS)
  /\ (lastVerify.token = lastPair.refreshToken /\ lastVerify.token.form = "jwt"
        /\ lastVerify.type = REFRESH /\ lastVerify.token.payload.iat = now)
     => /\ lastVerify.result.valid
        /\ ClaimsMatch(lastVerify.result.claims, lastPair.user, REFRESH)

\* the refresh token of a pair issued for a principal whose _id is an
\* ObjectId was verified in the instant of issuance and accepted
C8_Witness ==
  /\ lastVerify.token = lastPair.refreshToken /\ lastVerify.token.form = "jwt"
  /\ lastVerify.type = REFRESH /\ lastVerify.token.payload.iat = now
  /\ lastPair.user._id.oid
  /\ lastVerify.result.valid

\* C9: verifyToken never lets an exception out, and it returns claims only
\* for a well-formed token whose signature is the server's, whose expiry
\* has not been reached and whose kind is the expected one.
C9_FailsClosed ==
  /\ ~lastVerify.result.raised
  /\ lastVerify.result.valid
     => /\ lastVerify.token.form = "jwt"
        /\ lastVerify.token.sig = Mac(Secret, lastVerify.token.payload)
        /\ now < lastVerify.token.payload.exp
        /\ lastVerify.token.payload.type = lastVerify.type
        /\ lastVerify.result.claims = lastVerify.token.payload

\* a token signed with a foreign key was answered with null, not an exception
C9_Witness ==
  /\ lastVerify.token.form = "jwt"
  /\ lastVerify.token.sig.key = OtherKey
  /\ lastVerify.type = lastVerify.token.payload.type
  /\ ~lastVerify.result.valid /\ ~lastVerify.result.raised

C11_DisconnectNeverFails ==
  ret.op = "disconnect"
  => /\ ret.outcome # "failed"
     /\ ~IsConnected(ret.self)
     /\ ret.prior # "" => ret.outcome = "noop"

\* C11: a disconnect() that completes without error leaves the provider
\* without a handle and isConnected() false, and a disconnect() that
\* directly follows it also completes without error, performs no teardown
\* and leaves isConnected() false; disconnect() fails when the teardown of
\* the backend connection fails.
C11_DisconnectIdempotentOnceCompleted ==
  ret.op = "disconnect"
  => /\ ret.outcome # "failed"
          => (~connection[ret.self] /\ ~IsConnected(ret.self))
     /\ ret.prior \in {"ok", "noop"} => ret.outcome = "noop"

\* a disconnect() that tore the connection down was directly followed by
\* one that found no handle
C11_Witness ==
  /\ ret.op = "disconnect" /\ ret.outcome = "noop" /\ ret.prior = "ok"
  /\ ~IsConnected(ret.self)

\* C12: a connect() call on a provider that is connected returns at once:
\* it starts no handshake with the backend, installs no listener, appends
\* no connection event and leaves the handle as it was.
C12_ConnectWhenConnectedIsNoOp ==
  [][\A c \in Callers, i \in Instances :
       (Connect(c, i) /\ connection[i] /\ readyState = Connected)
       => /\ pc'[c] = "idle"
          /\ ret'.caller = c /\ ret'.op = "connect" /\ ret'.outcome = "already"
          /\ readyState' = readyState
          /\ listeners' = listeners
          /\ connectionEvents' = connectionEvents
          /\ connection' = connection]_vars

\* a connect() was answered "already connected" by a provider that is
\* connected and carries the listeners of its one handshake
C12_Witness ==
  /\ ret.op = "connect" /\ ret.outcome = "already"
  /\ connection[ret.self] /\ readyState = Connected
  /\ listeners[ret.self] = 1

\* number of events of one kind in a log
Count(log, kind) == Cardinality({k \in DOMAIN log : log[k] = kind})

\* C13: when a connect() succeeds on a provider on which no connect() or
\* disconnect() has completed before, isConnected() is true afterwards and
\* the provider's log holds exactly one `connected` event.
C13_FirstConnectLogsConnected ==
  [][\A c \in Callers :
       (ConnectResolve(c) /\ life[frame[c].self] = "new")
       => /\ connection'[frame[c].self] /\ readyState' = Connected
          /\ Count(connectionEvents'[frame[c].self], "connected") = 1]_vars

\* C14 as stated: when the handshake fails, connect() appends an `error`
\* event and fails, and afterwards the provider holds no handle and
\* isConnected() is false.
C14_FailedConnectLeavesNoHandle ==
  [][\A c \in Callers :
       ConnectReject(c)
       => /\ connectionEvents'[frame[c].self]
               = Append(connectionEvents[frame[c].self], "error")
          /\ ret'.caller = c /\ ret'.op = "connect" /\ ret'.outcome = "failed"
          /\ ~connection'[frame[c].self]
          /\ ~(connection'[frame[c].self] /\ readyState' = Connected)]_vars

\* C14: when the handshake fails, connect() appends an `error` event to the
\* log in the step in which it fails, and it stores no handle: a provider
\* that had no handle has none afterwards and isConnected() is false; a
\* provider that held the handle of an earlier connect() still holds it.
C14_FailedConnectStoresNoHandle ==
  [][\A c \in Callers :
       ConnectReject(c)
       => /\ connectionEvents'[frame[c].self]
               = Append(connectionEvents[frame[c].self], "error")
          /\ ret'.caller = c /\ ret'.op = "connect" /\ ret'.outcome = "failed"
          /\ connection' = connection
          /\ ~connection[frame[c].self]
               => ~(connection'[frame[c].self] /\ readyState' = Connected)]_vars

\* a connect() failed on a provider that had connected before and lost its
\* connection: the error is the newest event of the log and the old handle
\* is still there
C14_Witness ==
  /\ ret.op = "connect" /\ ret.outcome = "failed"
  /\ connection[ret.self]
  /\ Len(connectionEvents[ret.self]) > 0
  /\ connectionEvents[ret.self][Len(connectionEvents[ret.self])] = "error"

\* C15: an executeRawQuery call made while isConnected() is false fails with
\* the not-connected error without handing a command to the backend, and a
\* getConnection call made while the provider has no handle fails.
C15_NotConnectedRejected ==
  [][\A c \in Callers, i \in Instances :
       /\ \A q \in Queries :
            (ExecuteRawQuery(c, i, q) /\ ~(connection[i] /\ readyState = Connected))
            => /\ ret'.caller = c /\ ret'.op = "executeRawQuery"
               /\ ret'.outcome = "notConnected"
               /\ pc'[c] = "idle"
               /\ sent' = sent
       /\ (GetConnection(c, i) /\ ~connection[i])
          => /\ ret'.caller = c /\ ret'.op = "getConnection"
             /\ ret'.outcome = "notEstablished" /\ ret'.value = 0]_vars

\* a query was refused on a provider that still holds its handle but whose
\* connection the backend dropped; no command has reached the backend
C15_Witness ==
  /\ ret.op = "executeRawQuery" /\ ret.outcome = "notConnected"
  /\ connection[ret.self] /\ readyState = Disconnected
  /\ sent = 0

\* C16: whatever a caller does to the array getConnectionEvents() gave it
\* (adding, removing or reordering entries, assigning a field of an entry),
\* a later getConnectionEvents() call returns what it would have returned
\* before.
C16_ReturnedValueIsDetached ==
  [][\A c \in Callers :
       (\/ \E how \in {"push", "pop", "reverse"} : MutateArray(c, how)
        \/ \E k \in DOMAIN views[c].items, kind \in EventKinds :
             MutateField(c, k, kind))
       => \A i \in Instances : Returned(i)' = Returned(i)]_vars

\* a request that has been answered
Ended(r) == r.stage \in {"done", "rejected", "failed"}

\* C17: a refresh request without a refresh_token cookie is answered 401;
\* verifyToken is not called for it, no principal is looked up, and no
\* cookie is set or cleared.
C17_NoCookieRejectedUntouched ==
  (rq.stage # "none" /\ rq.cookie.form = "missing")
  => /\ rq.stage = "rejected" /\ rq.status = 401
     /\ ~rq.verified /\ ~rq.lookedUp
     /\ rq.set = NoCookies /\ rq.cleared = {}

\* a client that had been issued a session sent a refresh request without
\* the cookie
C17_Witness ==
  /\ rq.stage = "rejected" /\ rq.cookie.form = "missing" /\ rq.status = 401
  /\ lastPair.refreshToken.form = "jwt"

\* the ways a presented refresh cookie fails verification at time t
BadSignature(tk) == tk.form # "jwt" \/ tk.sig # Mac(Secret, tk.payload)
ExpiredAt(tk, t) == tk.form = "jwt" /\ tk.payload.exp <= t
WrongKind(tk) == tk.form = "jwt" /\ tk.payload.type # REFRESH

\* the lookup of the request answered, and found no document
PrincipalGone(r) == r.lookedUp /\ r.stage # "failed" /\ ~r.present

\* C18: a refresh request whose cookie has a bad signature, is expired or
\* is not of the refresh kind, or whose principal the lookup does not find,
\* ends rejected, with both cookies cleared and none set.
C18_InvalidRefreshRejectedAndCleared ==
  (/\ Ended(rq) /\ rq.cookie.form # "missing"
   /\ \/ BadSignature(rq.cookie)
      \/ ExpiredAt(rq.cookie, rq.at)
      \/ WrongKind(rq.cookie)
      \/ PrincipalGone(rq))
  => /\ rq.stage = "rejected"
     /\ rq.cleared = CookieNames
     /\ rq.set = NoCookies

\* a genuine, unexpired refresh token was presented after its principal
\* had been deleted: 404, both cookies cleared
C18_Witness ==
  /\ rq.stage = "rejected" /\ rq.status = 404
  /\ ~BadSignature(rq.cookie) /\ ~ExpiredAt(rq.cookie, rq.at) /\ ~WrongKind(rq.cookie)
  /\ PrincipalGone(rq)
  /\ rq.cleared = CookieNames

\* C19: a refresh request that carried a refresh cookie and was not
\* answered with success has both session cookies cleared, the 500 answer
\* to a failed principal lookup included.
C19_EveryFailureClearsCookies ==
  (Ended(rq) /\ rq.cookie.form # "missing" /\ rq.stage # "done")
  => rq.cleared = CookieNames

\* the cookie of the request passed verification as a refresh token when
\* the request arrived
ValidRefreshCookie(r) == VerifyToken(r.cookie, REFRESH, r.at).valid

\* the answer of a request that reached done: 200, and both cookies set to
\* tokens signed by the server that carry the id, username and role of the
\* document the lookup returned
ReissuedFromLookup(r) ==
  /\ r.status = 200
  /\ r.cleared = {}
  /\ \A n \in CookieNames :
       /\ r.set[n].form = "jwt"
       /\ r.set[n].sig = Mac(Secret, r.set[n].payload)
  /\ ClaimsMatch(r.set.access_token.payload, r.found, ACCESS)
  /\ ClaimsMatch(r.set.refresh_token.payload, r.found, REFRESH)

\* C20 as stated: a refresh request with a valid refresh cookie whose
\* principal exists ends in done and in no other way, with 200 and both
\* cookies re-issued for the principal as looked up.
C20_ValidRefreshAlwaysDone ==
  (Ended(rq) /\ ValidRefreshCookie(rq) /\ rq.present)
  => (rq.stage = "done" /\ ReissuedFromLookup(rq))

\* C20: a refresh request with a valid refresh cookie is answered once the
\* lookup of its principal settles; when the lookup returns the principal
\* the request reaches done, with 200 and both cookies re-issued carrying
\* the claims of the principal as looked up; when the lookup fails the
\* request ends with 500 and no cookie re-issued.
C20_ValidRefreshEnds ==
  /\ [](rq.stage = "done" => ReissuedFromLookup(rq))
  /\ []((Ended(rq) /\ ValidRefreshCookie(rq) /\ rq.present /\ rq.stage # "failed")
          => rq.stage = "done")
  /\ [](rq.stage = "failed" => (rq.status = 500 /\ rq.set = NoCookies))
  /\ (rq.stage = "lookup") ~> Ended(rq)

\* a request reached done for a principal whose role had changed since the
\* presented token was issued: the new tokens carry the role in the store
C20_Witness ==
  /\ rq.stage = "done" /\ rq.status = 200
  /\ rq.found.role # rq.cookie.payload.role
  /\ rq.set.access_token.payload.role = rq.found.role
  /\ rq.set.refresh_token.payload.role = rq.found.role

\* C30: isConnected() is true exactly when the provider holds a handle and the
\* readiness is 'ready'.  After a backend-initiated drop (the handle is still
\* held) isConnected() is false, and a connect() called then starts a new
\* handshake instead of returning early.
C30_IsConnectedIffHandleAndReady ==
  /\ [](\A i \in Instances :
          IsConnected(i) <=> (connection[i] /\ readyState = Connected))
  /\ [][BackendDrop => \A i \in Instances : ~IsConnected(i)']_vars
  /\ [][\A c \in Callers, i \in Instances :
          (Connect(c, i) /\ connection[i] /\ readyState = Disconnected)
            => (pc'[c] = "connect" /\ readyState' = Connecting
                /\ ret' = ret)]_vars

C30_Witness ==
  \E c \in Callers :
    /\ pc[c] = "connect"
    /\ connection[frame[c].self]
    /\ readyState = Connecting
    /\ Len(connectionEvents[frame[c].self]) > 0
    /\ connectionEvents[frame[c].self]
         [Len(connectionEvents[frame[c].self])] = "disconnected"

\* C27: createProvider fails for a type outside the known ones and for the
\* known types that have no provider yet ('postgres', 'mysql'), with two
\* errors that differ; nothing is returned and the registry, the constructed
\* providers and what callers hold are left as they were.
C27_UnknownAndUnbuiltTypesFail ==
  [][\A c \in Callers :
       (CreateProviderFinish(c) /\ frame[c].type # "mongodb")
         => /\ ret'.op = "createProvider" /\ ret'.type = frame[c].type
            /\ ret'.outcome = IF frame[c].type \in {"postgres", "mysql"}
                              THEN "notImplemented" ELSE "unsupported"
            /\ ret'.value = 0
            /\ providers' = providers
            /\ frame[c].type \notin DOMAIN providers'
            /\ config' = config
            /\ held' = held]_vars

C27_Witness ==
  /\ ret.op = "createProvider"
  /\ ret.type = "postgres"
  /\ ret.outcome = "notImplemented"
  /\ "mongodb" \in DOMAIN providers

\* C26: a successful refresh writes two tokens that are new: neither equals
\* the refresh token that was presented nor a token of the pair issued before,
\* whatever the time between the two and for an unchanged principal too.
C26_RefreshedTokensAreNew ==
  rq.stage = "done" =>
    {rq.set.access_token, rq.set.refresh_token}
      \cap {rq.cookie, lastPair.accessToken, lastPair.refreshToken} = {}

\* the Set-Cookie headers of the latest response on a route, the names it
\* sets and the names it clears
HeadersOf(route) == Range(res[route].setCookie)

IsSet(h) == h.value.form # "missing"

SetNames(route) == {h.name : h \in {x \in HeadersOf(route) : IsSet(x)}}

ClearedNames(route) == {h.name : h \in {x \in HeadersOf(route) : ~IsSet(x)}}

\* C21: in every response of login, refresh and logout the two session
\* cookies go together: access_token is set exactly when refresh_token is,
\* cleared exactly when refresh_token is, and no response sets one of them
\* while it clears or leaves out the other.  A successful login or refresh
\* sets both and a logout clears both.
C21_CookiesHandledAsPair ==
  /\ \A route \in Routes :
       /\ SetNames(route) \in {{}, CookieNames}
       /\ ClearedNames(route) \in {{}, CookieNames}
       /\ SetNames(route) = {} \/ ClearedNames(route) = {}
       /\ Len(res[route].setCookie)
            = Cardinality(SetNames(route)) + Cardinality(ClearedNames(route))
  /\ \A route \in {"login", "refresh"} :
       res[route].status = 200 => SetNames(route) = CookieNames
  /\ res["logout"].status = 200 => ClearedNames("logout") = CookieNames

C21_Witness ==
  /\ res["login"].status = 200
  /\ res["refresh"].status = 200
  /\ res["logout"].status = 200

\* C22: every cookie the session cookie manager writes or clears is
\* http-only with path '/', its secure attribute is the production flag, and
\* its same-site attribute is 'none' exactly when it is secure and 'lax'
\* otherwise; 'none' never goes without secure.
C22_CookieAttributes ==
  \A route \in Routes : \A h \in HeadersOf(route) :
    /\ h.httpOnly
    /\ h.path = "/"
    /\ h.secure = isProduction
    /\ h.sameSite = IF h.secure THEN "none" ELSE "lax"
    /\ h.sameSite = "none" => h.secure

C22_Witness ==
  /\ ~isProduction
  /\ SetNames("login") = CookieNames
  /\ ClearedNames("logout") = CookieNames

\* the attributes a browser matches and enforces
Attrs(h) == <<h.path, h.secure, h.httpOnly, h.sameSite>>

\* C23: clearAuthCookies clears both cookies, each as an empty value that has
\* expired, with the path, secure, http-only and same-site attributes that
\* setAuthCookies gave the cookie of that name, under either value of the
\* production flag.
C23_ClearMatchesSet ==
  /\ \A r1 \in Routes, r2 \in Routes :
       \A s \in HeadersOf(r1), c \in HeadersOf(r2) :
         (IsSet(s) /\ ~IsSet(c) /\ s.name = c.name)
           => (Attrs(c) = Attrs(s) /\ c.expired /\ c.maxAge = NoMaxAge)
  /\ res["logout"].status = 200 => ClearedNames("logout") = CookieNames

C23_Witness ==
  /\ isProduction
  /\ SetNames("login") = CookieNames
  /\ ClearedNames("logout") = CookieNames

\* C24: the cookie lives as long as the token in it: the access token is
\* valid for 900 seconds and its cookie has a max-age of 900 seconds, the
\* refresh token 604800 seconds and its cookie 604800 seconds, at any time
\* of issue and under either value of the production flag.
C24_CookieLifetimeIsTokenLifetime ==
  \A route \in Routes : \A h \in HeadersOf(route) :
    IsSet(h) =>
      /\ h.maxAge = h.value.payload.exp - h.value.payload.iat
      /\ h.maxAge = IF h.name = "access_token" THEN 900 ELSE 604800
      /\ ~h.expired

C24_Witness ==
  /\ isProduction
  /\ now > 0
  /\ \E h \in HeadersOf("refresh") : IsSet(h) /\ h.value.payload.iat = now

\* the token under `name` passes as `type`, fails as the other kind, and
\* carries the claims of `user`
CarriesKind(route, name, type, user) ==
  \E h \in HeadersOf(route) :
    /\ h.name = name
    /\ VerifyToken(h.value, type, h.value.payload.iat).valid
    /\ ClaimsMatch(VerifyToken(h.value, type, h.value.payload.iat).claims,
                   user, type)
    /\ ~VerifyToken(h.value, OtherType(type), h.value.payload.iat).valid

\* C25: after setAuthCookies for a principal, the value under access_token
\* verifies as an ACCESS token and the value under refresh_token as a REFRESH
\* token, each giving the principal's id, username and role; neither passes
\* as the other kind.
C25_CookiesCarryTheirKind ==
  /\ res["login"].status = 200 =>
       /\ CarriesKind("login", "access_token", ACCESS, res["login"].user)
       /\ CarriesKind("login", "refresh_token", REFRESH, res["login"].user)
  /\ res["refresh"].status = 200 =>
       /\ CarriesKind("refresh", "access_token", ACCESS, rq.found)
       /\ CarriesKind("refresh", "refresh_token", REFRESH, rq.found)

C25_Witness ==
  /\ res["login"].status = 200
  /\ res["refresh"].status = 200
  /\ rq.found.role # rq.decoded.role

\* C28: DatabaseService.executeRawQuery never opens a connection.  Called
\* while the provider is not connected it fails with the provider's
\* 'not connected' error, and afterwards the provider is still not connected:
\* no handshake was started, the readiness and the handle are as before and
\* nothing was sent to the backend.
C28_RawQueryNeverConnects ==
  [][\A c \in Callers, q \in Queries :
       (ServiceExecuteRawQuery(c, q) /\ ~IsConnected(ServiceProvider))
         => /\ svc'[c].op = "executeRawQuery"
            /\ svc'[c].stage = "threw"
            /\ svc'[c].surfaced = "notConnected"
            /\ ~IsConnected(ServiceProvider)'
            /\ readyState' = readyState
            /\ connection' = connection
            /\ \A d \in Callers : pc'[d] = pc[d]
            /\ sent' = sent]_vars

C28_Witness ==
  \E c \in Callers :
    /\ svc[c].op = "executeRawQuery"
    /\ svc[c].stage = "threw"
    /\ svc[c].surfaced = "notConnected"
    /\ connection[ServiceProvider]
    /\ readyState = Disconnected

\* C29: a failure of DatabaseService.connect, disconnect or executeRawQuery
\* reaches the caller as the error the provider raised, after one call of the
\* provider: the service does not call again, does not recover, and returns
\* normally only when the provider did.
C29_ServiceRethrowsAfterOneAttempt ==
  \A c \in Callers :
    (svc[c].stage \in {"returned", "threw"} /\ ret.caller = c)
      => /\ ret.op = svc[c].op
         /\ svc[c].attempts = 1
         /\ pc[c] = "idle"
         /\ Threw(ret) <=> svc[c].stage = "threw"
         /\ svc[c].stage = "threw" => svc[c].surfaced = ret.outcome
         /\ svc[c].stage = "returned" => svc[c].surfaced = ""

C29_Witness ==
  /\ \E c \in Callers :
       svc[c].op = "connect" /\ svc[c].stage = "threw" /\ svc[c].surfaced = "failed"
  /\ \E c \in Callers :
       svc[c].op = "executeRawQuery" /\ svc[c].stage = "threw"
         /\ svc[c].surfaced = "failed"

\* C31: the connection event log only grows.  Over every step of connect,
\* disconnect, executeRawQuery, getConnection, getConnectionEvents and the
\* backend's signals, and of a caller rearranging the array it was returned,
\* the log before the step is a prefix of the log after it.  The one step
\* left out is a caller assigning a field of a returned entry, which is not
\* an operation of the provider.
C31_LogIsAppendOnly ==
  [][\/ \E c \in Callers : \E k \in DOMAIN views[c].items, kind \in EventKinds :
          MutateField(c, k, kind)
     \/ \A i \in Instances :
          /\ Len(connectionEvents[i]) <= Len(connectionEvents'[i])
          /\ SubSeq(connectionEvents'[i], 1, Len(connectionEvents[i]))
               = connectionEvents[i]]_vars

C31_Witness ==
  \E i \in Instances :
    /\ Len(connectionEvents[i]) >= 2
    /\ connectionEvents[i][1] = "error"
    /\ connectionEvents[i][Len(connectionEvents[i])] = "disconnected"

\* C33: a connect() that completes on a provider whose last completed
\* lifecycle call was a disconnect() leaves one set of listeners on the
\* backend connection, so that a later signal is recorded once.
C33_ReconnectKeepsOneListenerSet ==
  [][\A c \in Callers :
       (ConnectResolve(c) /\ life[frame[c].self] = "disconnected")
         => listeners'[frame[c].self] = 1]_vars

\* C34: a connect() called while another connect() on the same provider is
\* awaiting its handshake does not start a handshake of its own.
C34_ConcurrentConnectJoinsFirst ==
  [][\A c \in Callers, i \in Instances :
       (/\ Connect(c, i)
        /\ \E d \in Callers \ {c} : pc[d] = "connect" /\ frame[d].self = i)
         => pc'[c] # "connect"]_vars

\* C36: the provider a DatabaseService got from createProvider is the
\* instance the registry maps its backend type to whenever the registry maps
\* that type, and two distinct instances of one backend type never hold a
\* connection handle at the same time.
C36_ServiceHoldsRegisteredProvider ==
  /\ \A c \in Callers :
       (held[c].value # 0 /\ born[held[c].value][1] \in DOMAIN providers)
         => providers[born[held[c].value][1]] = held[c].value
  /\ \A i \in Instances, j \in Instances :
       (i # j /\ born[i][1] = born[j][1]) => ~(connection[i] /\ connection[j])

\* C35: nothing is revoked.  The refresh token presented in a successful
\* refresh and the tokens of the pair issued at login are accepted by
\* verifyToken for their kind in every later state in which they have not
\* expired, after a logout too, and rejected from their expiry on.
C35_NothingIsRevoked ==
  \A tk \in Genuine \cup (IF rq.stage = "done" THEN {rq.cookie} ELSE {}) :
    /\ now < tk.payload.exp
         => /\ VerifyToken(tk, tk.payload.type, now).valid
            /\ VerifyToken(tk, tk.payload.type, now).claims = tk.payload
    /\ now >= tk.payload.exp => ~VerifyToken(tk, tk.payload.type, now).valid

C35_Witness ==
  /\ rq.stage = "done"
  /\ res["logout"].status = 200
  /\ rq.cookie = lastPair.refreshToken
  /\ now >= lastPair.accessToken.payload.exp
  /\ now < rq.cookie.payload.exp

\* C37: login writes cookies only when it authenticated.  A login answered
\* 400, 401 or 500 carries no Set-Cookie header; a login is answered 200
\* exactly when the username is that of a stored user and the password
\* matches, and a 200 response sets both cookies with tokens of that user.
C37_LoginSetsCookiesOnlyOnSuccess ==
  /\ [](/\ res["login"].status \in {0, 200, 400, 401, 500}
        /\ res["login"].status # 200 => res["login"].setCookie = <<>>
        /\ res["login"].status = 200
             => /\ SetNames("login") = CookieNames
                /\ ClearedNames("login") = {}
                /\ \A h \in HeadersOf("login") :
                     /\ h.value.payload.id = IdString(res["login"].user._id)
                     /\ h.value.payload.username = res["login"].user.username)
  /\ [][AuthenticateUserReturn
          => /\ res'["login"].status \in {200, 401}
             /\ res'["login"].status = 200
                  <=> (/\ \E u \in store : u.username = lg.username
                       /\ lg.password = "right")
             /\ res'["login"].status = 200
                  => res'["login"].user.username = lg.username]_vars
  /\ [][AuthenticateUserThrow => res'["login"].status = 500]_vars
  /\ [][\A username \in Usernames, password \in Passwords :
          (AuthenticateUser(username, password)
             /\ (username = "" \/ password = ""))
            => res'["login"].status = 400]_vars

C37_Witness ==
  /\ res["login"].status = 401
  /\ res["login"].setCookie = <<>>
  /\ res["login"].user = NoUser

\* C38: a refresh request is answered once, with one of 200, 401, 404 and
\* 500; tokens are written to cookies in the 200 response and in no other,
\* and no response both sets and clears cookies.
C38_RefreshAnswersOnce ==
  /\ Ended(rq) <=> rq.status # 0
  /\ res["refresh"].status = rq.status
  /\ rq.status \in {0, 200, 401, 404, 500}
  /\ rq.status = 0 => res["refresh"].setCookie = <<>>
  /\ (SetNames("refresh") # {} \/ rq.set # NoCookies) <=> rq.status = 200
  /\ rq.status = 200 => (SetNames("refresh") = CookieNames /\ rq.cleared = {})
  /\ SetNames("refresh") = {} \/ ClearedNames("refresh") = {}
  /\ ClearedNames("refresh") # {} => rq.status \in {401, 404}

C38_Witness ==
  /\ rq.status = 404
  /\ ClearedNames("refresh") = CookieNames
  /\ rq.cookie.form = "jwt"

\* C32: UserService connects lazily.  An operation started while dbService
\* is not connected calls dbService.connect() once before anything else; it
\* reaches its model call only in a step in which that connect has returned
\* without an error, and when the connect throws the operation fails with
\* the connect's error and never reaches its model call.
C32_UserServiceConnectsLazily ==
  /\ [][\A c \in Callers :
          (/\ us'[c] # us[c] /\ us[c].stage \notin {"connecting", "touching"}
           /\ ~IsConnected(ServiceProvider))
            => /\ svc'[c].op = "connect" /\ svc'[c].attempts = 1
               /\ us'[c].lazy
               /\ ~us'[c].touched]_vars
  /\ [][\A c \in Callers :
          (us'[c] # us[c] /\ us'[c].lazy /\ us'[c].stage = "touching")
            => /\ svc'[c].op = "connect"
               /\ svc'[c].stage = "returned" /\ svc'[c].raised = ""
               /\ ret'.op = "connect" /\ ret'.outcome \in {"ok", "already"}]_vars
  /\ [][\A c \in Callers :
          (us[c].stage = "connecting" /\ svc[c].stage = "await"
             /\ svc'[c].stage = "threw")
            => /\ us'[c].stage = "failed" /\ ~us'[c].touched
               /\ us'[c].error = svc'[c].surfaced]_vars
  /\ [](\A c \in Callers :
          (us[c].stage = "failed" /\ ~us[c].touched)
            => (us[c].lazy /\ us[c].error # ""))

C32_Witness ==
  \E c \in Callers, d \in Callers :
    /\ us[c].stage = "failed" /\ us[c].lazy /\ ~us[c].touched
    /\ us[d].stage = "done" /\ us[d].lazy /\ us[d].touched

\* C39: shutdown order and exit code.  dbService.disconnect() is called only
\* once the HTTP server has closed, and a process past start-up exits only in
\* a callback whose disconnect call has ended: with code 0 when that call
\* returned, with code 1 when it threw.
C39_ShutdownDisconnectsThenExits ==
  /\ [][\A c \in Callers :
          (svc'[c] # svc[c] /\ svc'[c].op = "disconnect"
             /\ svc[c].stage # "await")
            => sd.phase = "closed"]_vars
  /\ [][(sd.phase \in {"listening", "closing", "closed"}
           /\ sd'.phase = "exited")
          => /\ sd.phase = "closed"
             /\ sd'.by \in sd.callbacks
             /\ svc'[sd'.by].op = "disconnect"
             /\ svc'[sd'.by].stage \in {"returned", "threw"}
             /\ sd'.code \in {0, 1}
             /\ sd'.code = 0 <=> (/\ svc'[sd'.by].stage = "returned"
                                  /\ svc'[sd'.by].raised = "")]_vars
  /\ [](sd.phase \in {"listening", "closing"} => sd.code = -1)

C39_Witness ==
  /\ sd.phase = "exited" /\ sd.by # 0
  /\ sd.code = 1
  /\ svc[sd.by].raised = "failed"

====
